---- MODULE Spec2Model ----
(***************************************************************************)
(* Model of the voicemail data access layer: the mailbox counter protocol  *)
(* (newMessage / readMessage / deletedMessage through updateMwi), the      *)
(* message transactional operations (markAsRead, remove) and the provider  *)
(* transaction primitives they run on (sqlite and postgres).               *)
(*                                                                         *)
(* The host is a single-threaded event loop: every database round trip is  *)
(* a suspension point, so one action is one round trip together with the   *)
(* promise continuation that runs when it settles.                         *)
(***************************************************************************)
EXTENDS Integers, Sequences, FiniteSets, TLC

(* ------------------------------------------------------------------ *)
(* Bounds                                                             *)
(* ------------------------------------------------------------------ *)

\* number of concurrently running repository invocations
NumProcs == 2

\* largest read/unread count a mailbox row holds initially
MaxCount == 1

\* largest number of messages stored for the (mailbox, folder) pair
MaxMessages == 101

\* `var limit = 50`: the batch size of message.all
limit == 50

Procs == 1..NumProcs

\* mailbox rows are selected by (mailbox_number, context_id); one key each
Mailboxes == {"m1", "m2"}

\* message rows are selected by id
MessageIds == {"x1"}

\* a stored SQL NULL in an integer column, and null in an instance's count: a
\* value no count arithmetic reaches, so that a count of -1 is not taken for it
NULL == -100

\* undefined in an instance's count attribute
UNDEFINED == -200

\* null and undefined in an instance's string attribute, a stored SQL NULL in
\* a varchar column
NullString == "null"
UndefinedString == "undefined"

Providers == {"sqlite", "postgres"}

NoLock == "none"
DbLock == "db"

CounterOps == {"newMessage", "readMessage", "deletedMessage"}
MessageOps == {"markAsRead", "remove"}

VARIABLES
    provider,    \* config.provider: which storage provider the repositories use
    mailboxes,   \* committed vm_mailbox rows: id -> [number, email, greeting, read, unread]
    messages,    \* committed vm_message rows: id -> [read]  ("Y" / "N")
    held,        \* held[p]: the lock p's open transaction holds (NoLock if none)
    pc,          \* where invocation p is in its promise chain
    op,          \* the invocation: [name, target, messageRead]
    rowRead,     \* result.rows[0] of p's locking SELECT
    counts,      \* the `counts` closure variable of updateMwi
    local,       \* markAsRead's `updated` / remove's `message` closure variable
    staged,      \* the uncommitted write of p's open transaction
    err,         \* the error the promise chain carries
    result,      \* how the returned promise settled
    trace,       \* the statements and calls p issued, in order
    mwiArgs,     \* the arguments p passed to the notification callback
    persisted,   \* the row as p's COMMIT left it
    mailboxes0,  \* the vm_mailbox rows at the start
    expected,    \* the count rules of the committed invocations, applied in commit order
    inst,        \* inst[p]: the in-memory entity instance caller p works with
    temp,        \* temp[p]: mailbox.save's `temp` closure variable
    query,       \* query[p]: the statement common.save / get / remove handed to runQuery
    got,         \* got[p]: what caller p's last get resolved to
    indexed,     \* whether createIndexes ran: the unique indexes exist
    idSeq,       \* how many ids the vm_mailbox id sequence handed out
    folderRows,  \* the vm_message rows of one (mailbox, folder) pair: id -> date
    countResult, \* message.all: what the count query resolved to
    batchOut,    \* message.all: the batch queries, by run index
    allOut,      \* message.all: how the returned promise settled
    cache,       \* db.js `cache`: the own properties of the object, by connection string
    created,     \* how many sets of repositories the factory created
    loaded,      \* what the last call of the factory returned, and for which string
    rq,          \* rq[p]: caller p's use of the provider: its connection and where it is
    msgRows,     \* the vm_message rows with all their columns: id -> row
    msg,         \* the message instance the caller holds
    latestOut,   \* message.latest: the call and what it resolved to
    sharedInstance, \* a mailbox instance several callers hold a reference to
    saving,      \* saving[c]: the mailbox.save call c made on that instance
    tempObject,  \* the message instance message.save is given (convertForStorage returns it)
    msgSave,     \* the message.save call on it, and what the resolved saves persisted
    stored,      \* the ids of the vm_message rows of one (mailbox, folder) pair, by date
    kept,        \* the ids stored when message.all was called and not removed since
    written      \* how many saves and removes other callers committed

\* the generic save / get / remove of the common helpers
entityVars == <<inst, temp, query, got, indexed, idSeq>>

\* message.all
listingVars == <<folderRows, countResult, batchOut, allOut>>

\* the repository factory of db.js
factoryVars == <<cache, created, loaded>>

\* provider.runQuery and provider.beginTransaction, connection by connection
queryVars == <<rq>>

\* message.get / latest / changeFolder
messageVars == <<msgRows, msg, latestOut>>

\* mailbox.save calls on one instance
sharedVars == <<sharedInstance, saving>>

\* the rows of a (mailbox, folder) pair while other callers write to it
writerVars == <<stored, kept, written>>

\* message.save calls on one message instance
instanceVars == <<tempObject, msgSave>>

\* the counter and message operations
callVars == <<provider, mailboxes, messages, held, pc, op, rowRead, counts, local,
              staged, err, result, trace, mwiArgs, persisted, mailboxes0, expected>>

vars == <<provider, mailboxes, messages, held, pc, op, rowRead, counts, local,
          staged, err, result, trace, mwiArgs, persisted, mailboxes0, expected,
          entityVars, listingVars, factoryVars, queryVars, messageVars, sharedVars, instanceVars,
          writerVars>>

(* ------------------------------------------------------------------ *)
(* Values                                                             *)
(* ------------------------------------------------------------------ *)

NoCounts == [read |-> NULL, unread |-> NULL]
NoRow == [present |-> FALSE, read |-> NULL, unread |-> NULL, flag |-> "-"]
MailboxRow(r) == [present |-> TRUE, read |-> r.read, unread |-> r.unread, flag |-> "-"]
MessageRow(r) == [present |-> TRUE, read |-> NULL, unread |-> NULL, flag |-> r.read]

NoWrite == [kind |-> "none", read |-> NULL, unread |-> NULL, flag |-> "-"]
NoOp == [name |-> "none", target |-> "none", messageRead |-> FALSE]
NoErr == [origin |-> "none", wraps |-> 0]
NoLocal == [updated |-> FALSE, snapshot |-> NoRow]
Pending == [state |-> "pending", err |-> NoErr, counts |-> NoCounts,
            updated |-> FALSE, snapshot |-> NoRow]
Rejected(e) == [Pending EXCEPT !.state = "rejected", !.err = e]

\* an error raised by the step `origin`
Failure(origin) == [origin |-> origin, wraps |-> 0]

\* throw new Error(err): a new Error whose message is the caught error as a string
NewError(e) == [origin |-> e.origin, wraps |-> e.wraps + 1]

\* unary plus on a stored integer: +null is 0
ToNumber(v) == IF v = NULL THEN 0 ELSE v

\* a || b on numbers: b when a is 0
OrElse(a, b) == IF a = 0 THEN b ELSE a

\* message.convertFromStorage / convertForStorage of the read column
convertFromStorage(flag) == flag = "Y"
convertForStorage(read) == IF read THEN "Y" ELSE "N"

\* the vm_mailbox columns the model keeps: mailbox_number, email (not null),
\* greeting_away (nullable), read and unread (nullable integers)
Columns == {"number", "email", "greeting", "read", "unread"}
NumColumns == {"read", "unread"}
NotNullColumns == {"number", "email"}

\* the row ids the store hands out on insert, beside the ids of the rows the
\* fixtures created
NewIdSeq == <<"r1", "r2">>
NewIds == {NewIdSeq[i] : i \in DOMAIN NewIdSeq}
RowIds == Mailboxes \cup NewIds

\* getId() of an instance that was created without an id
NoId == "undefined"

\* JavaScript truthiness of an attribute value: undefined, null, 0 and '' are
\* falsy
Truthy(c, v) ==
    IF c \in NumColumns THEN v \notin {UNDEFINED, NULL, 0}
    ELSE v \notin {UndefinedString, NullString, ""}

IsUndefined(c, v) == IF c \in NumColumns THEN v = UNDEFINED ELSE v = UndefinedString
IsNull(c, v) == IF c \in NumColumns THEN v = NULL ELSE v = NullString

\* the SQL NULL a column holds when an insert leaves it out
StoredNull(c) == IF c \in NumColumns THEN NULL ELSE NullString

\* null (get found no row), or no instance created yet.  `inserted` records
\* that a save of this very object resolved with an insert, `dirty` that the
\* caller assigned an attribute since the object was created, loaded or saved.
NoInstance == [exists |-> FALSE, inserted |-> FALSE, dirty |-> FALSE, id |-> NoId,
               number |-> UndefinedString,
               email |-> UndefinedString, greeting |-> UndefinedString,
               read |-> UNDEFINED, unread |-> UNDEFINED]

NoFields == [c \in {} |-> UNDEFINED]
\* no statement yet.  `matched` is set when a statement resolves: whether it
\* found a row (an insert: stored one)
NoQuery == [kind |-> "none", fields |-> NoFields, id |-> NoId,
            number |-> UndefinedString, matched |-> FALSE]
NoTemp == [read |-> UNDEFINED, unread |-> UNDEFINED]

\* the mailbox.save calls made on the shared instance
SaveCalls == {1, 2}

\* no call of mailbox.save made.  `before` keeps the read / unread the
\* instance carried when the call was made, `phase` whether another call was
\* running then
NoSave == [pc |-> "idle", temp |-> NoTemp, query |-> NoQuery, before |-> NoTemp,
           phase |-> "none"]

\* message.all: the count query has not resolved yet
NotCounted == -1

\* message.all was not called
NoListing == [state |-> "idle", messages |-> <<>>]

\* message.all: a batch query that has not resolved
NoBatch == [done |-> FALSE, rows |-> <<>>]

(* ------------------------------------------------------------------ *)
(* Count rules (the three modifier functions)                         *)
(* ------------------------------------------------------------------ *)

\* mutant of modifierNewMessage: the null default of readMessage (|| 1) copied
modifierNewMessageNullAsOne(row) ==
    LET read == OrElse(ToNumber(row.read), 0)
        unread == OrElse(ToNumber(row.unread), 1)
    IN [read |-> read, unread |-> unread + 1]

\* newMessage's modifier: unread + 1
modifierNewMessage(row) ==
    LET read == OrElse(ToNumber(row.read), 0)
        unread == OrElse(ToNumber(row.unread), 0)
    IN [read |-> read, unread |-> unread + 1]

\* mutant of modifierReadMessage: unread defaults to 0 like the other modifiers
modifierReadMessageNullAsZero(row) ==
    LET read == OrElse(ToNumber(row.read), 0)
        unread == OrElse(ToNumber(row.unread), 0)
    IN [read |-> read + 1, unread |-> unread - 1]

\* mutant of modifierReadMessage: the unread count is not taken down
modifierReadMessageKeepsUnread(row) ==
    LET read == OrElse(ToNumber(row.read), 0)
        unread == OrElse(ToNumber(row.unread), 1)
    IN [read |-> read + 1, unread |-> unread]

\* mutant of modifierReadMessage: the read count is not taken up
modifierReadMessageKeepsRead(row) ==
    LET read == OrElse(ToNumber(row.read), 0)
        unread == OrElse(ToNumber(row.unread), 1)
    IN [read |-> read, unread |-> unread - 1]

\* readMessage's modifier: read + 1, unread - 1 ("make sure unread will be 0 if
\* currently null")
modifierReadMessage(row) ==
    LET read == OrElse(ToNumber(row.read), 0)
        unread == OrElse(ToNumber(row.unread), 1)
    IN [read |-> read + 1, unread |-> unread - 1]

\* mutant of modifierDeletedMessage: the counters go down without the test
\* for 0
modifierDeletedMessageNoFloor(row, messageRead) ==
    LET read == OrElse(ToNumber(row.read), 0)
        unread == OrElse(ToNumber(row.unread), 0)
    IN [read |-> IF messageRead THEN read - 1 ELSE read,
        unread |-> IF messageRead THEN unread ELSE unread - 1]

\* deletedMessage's modifier: one of the two counters goes down, unless it is 0
modifierDeletedMessage(row, messageRead) ==
    LET read == OrElse(ToNumber(row.read), 0)
        unread == OrElse(ToNumber(row.unread), 0)
        read2 == IF read # 0 /\ messageRead THEN read - 1 ELSE read
        unread2 == IF unread # 0 /\ ~messageRead THEN unread - 1 ELSE unread
    IN [read |-> read2, unread |-> unread2]

\* the modifier an invocation hands to updateMwi
modifier(o, row) ==
    CASE o.name = "newMessage" -> modifierNewMessage(row)
      [] o.name = "readMessage" -> modifierReadMessage(row)
      [] o.name = "deletedMessage" -> modifierDeletedMessage(row, o.messageRead)

(* ------------------------------------------------------------------ *)
(* Provider: locking                                                  *)
(* ------------------------------------------------------------------ *)

\* mutant of forUpdate: the postgres select goes out without FOR UPDATE
forUpdateDropped(prov) == FALSE

\* forUpdate: postgres appends FOR UPDATE to the select, sqlite returns it as is
forUpdate(prov) == prov = "postgres"

\* mutant of beginImmediate: sqlite runs a plain (deferred) BEGIN
beginDeferred(prov, lock) == FALSE

\* beginTransaction(lock): sqlite runs BEGIN IMMEDIATE when lock is set, which
\* takes the database write lock; postgres runs a plain BEGIN
beginImmediate(prov, lock) == prov = "sqlite" /\ lock

\* mutant of LockFree: a lock is granted whoever holds it
LockNeverHeld(r, p) == TRUE

LockFree(r, p) == \A q \in Procs \ {p} : held[q] # r

Stmt(s, ok) == [stmt |-> s, ok |-> ok]
Log(p, evs) == [trace EXCEPT ![p] = @ \o evs]
Issued(p, s) == \E i \in DOMAIN trace[p] : trace[p][i].stmt = s
Count(p, s) == Cardinality({i \in DOMAIN trace[p] : trace[p][i].stmt = s})

IsCounter(p) == op[p].name \in CounterOps
IsMessage(p) == op[p].name \in MessageOps

(* ------------------------------------------------------------------ *)
(* Initial state                                                      *)
(* ------------------------------------------------------------------ *)

\* the values a stored read / unread column holds: null until a count is
\* written (save leaves a count of 0 or undefined out of the insert)
CountValues == {NULL} \cup (0..MaxCount)

MailboxRows == [number : {"m1"}, read : CountValues, unread : CountValues,
                email : {"a@email.com"}, greeting : {"away.wav"}]

\* the fixture's mailbox 1234: read 1, unread 1
Fixture1234 == [number |-> "m2", read |-> 1, unread |-> 1, email |-> "a@email.com",
                greeting |-> "away.wav"]

\* mailbox m1 holds any row; mailbox m2 holds the fixture's counts, or was
\* never saved (no row) beside an m1 with the fixture's counts
InitMailboxes ==
    { [m \in Mailboxes |-> IF m = "m1" THEN r ELSE Fixture1234] : r \in MailboxRows }
      \cup { [m \in {"m1"} |-> [Fixture1234 EXCEPT !.number = "m1"]] }

\* every stored message starts unread (init() sets read to false)
InitMessages ==
    { [id \in MessageIds |-> [read |-> convertForStorage(FALSE)]] }

\* the connection strings of the configurations the factory is called with:
\* database files or urls; one of them is also the name of a property every
\* object inherits
ConnectionStrings == {"voicemail.db", "other.db", "postgres://voicemail", "constructor"}

\* names of properties `{}` inherits from Object.prototype
ObjectPrototype == {"constructor", "toString", "valueOf", "hasOwnProperty"}

\* a set of repositories: the string and provider it was created for
Repos(id, connectionString, providerName) ==
    [id |-> id, connectionString |-> connectionString, provider |-> providerName]

\* undefined: the object has no such property
NoRepos == Repos(0, "undefined", "undefined")

\* the value of an inherited property, Object.prototype.constructor for one
Inherited == Repos(0, "Object.prototype", "undefined")

NotLoaded == [connectionString |-> "undefined", repos |-> NoRepos, fromCache |-> FALSE]

\* the factory was never called: var cache = {}
FactoryIdle ==
    /\ cache = [k \in ConnectionStrings |-> NoRepos]
    /\ created = 0
    /\ loaded = NotLoaded

\* caller p's use of the provider: which function it called (api), where the
\* promise chain is (pc), the statement, the connection and how often it was
\* closed or released, whether its transaction created the index, the error
\* the chain carries and how the returned promise settled
NoCall ==
    [api |-> "none", pc |-> "idle", stmt |-> "none", conn |-> "none", closes |-> 0,
     staged |-> FALSE, err |-> NoErr, state |-> "pending"]

\* no caller uses the provider
ProviderIdle == rq = [p \in Procs |-> NoCall]

\* no message instance is held
NoMessage ==
    [id |-> 0, mailbox |-> "none", folder |-> "none", date |-> 0, read |-> FALSE,
     callerId |-> NullString, duration |-> "", recording |-> ""]

NoLatest == [state |-> "idle", mailbox |-> "none", folder |-> "none", date |-> 0,
             messages |-> <<>>]

\* no message row is stored and no message call was made
FolderIdle ==
    /\ msgRows = <<>>
    /\ msg = NoMessage
    /\ latestOut = NoLatest

\* no caller holds an instance and no index was created
EntityIdle ==
    /\ inst = [p \in Procs |-> NoInstance]
    /\ temp = [p \in Procs |-> NoTemp]
    /\ query = [p \in Procs |-> NoQuery]
    /\ got = [p \in Procs |-> NoInstance]
    /\ indexed = FALSE
    /\ idSeq = 0

\* message.all is not running
ListingIdle ==
    /\ folderRows = <<>>
    /\ countResult = NotCounted
    /\ batchOut = <<>>
    /\ allOut = NoListing

\* a JavaScript date value: a moment (value in milliseconds), a number (the
\* epoch seconds sqlite stores) or undefined
Moment(ms) == [type |-> "moment", value |-> ms]
Number(n) == [type |-> "number", value |-> n]
NoDate == [type |-> "undefined", value |-> 0]

\* no message instance was handed to message.save.  read is a JavaScript
\* value: true, false, 'Y', 'N' or undefined
NoObject == [exists |-> FALSE, id |-> 0, read |-> "undefined", date |-> NoDate]

\* no message.save call made.  `before` keeps the read and date the instance
\* carried when the call was made, `writes` what the saves that resolved,
\* since the caller last changed the instance, stored in the row
NoMsgSave == [pc |-> "idle", before |-> [read |-> "undefined", date |-> NoDate],
              query |-> [read |-> "undefined", date |-> NoDate], writes |-> <<>>]

InstanceIdle ==
    /\ tempObject = NoObject
    /\ msgSave = NoMsgSave

\* no rows are stored for the pair other callers write to
WriterIdle ==
    /\ stored = <<>>
    /\ kept = {}
    /\ written = 0

\* no instance is shared and no save runs on it
SharedIdle ==
    /\ sharedInstance = NoInstance
    /\ saving = [c \in SaveCalls |-> NoSave]

\* no invocation is running
InitCalls ==
    /\ held = [p \in Procs |-> NoLock]
    /\ pc = [p \in Procs |-> "idle"]
    /\ op = [p \in Procs |-> NoOp]
    /\ rowRead = [p \in Procs |-> NoRow]
    /\ counts = [p \in Procs |-> NoCounts]
    /\ local = [p \in Procs |-> NoLocal]
    /\ staged = [p \in Procs |-> NoWrite]
    /\ err = [p \in Procs |-> NoErr]
    /\ result = [p \in Procs |-> Pending]
    /\ trace = [p \in Procs |-> <<>>]
    /\ mwiArgs = [p \in Procs |-> NoCounts]
    /\ persisted = [p \in Procs |-> NoRow]
    /\ mailboxes0 = mailboxes
    /\ expected = [m \in DOMAIN mailboxes |->
                     [read |-> mailboxes[m].read, unread |-> mailboxes[m].unread]]

Init ==
    /\ provider \in Providers
    /\ mailboxes \in InitMailboxes
    /\ messages \in InitMessages
    /\ InitCalls
    /\ FactoryIdle
    /\ WriterIdle
    /\ InstanceIdle
    /\ SharedIdle
    /\ ProviderIdle
    /\ FolderIdle
    /\ EntityIdle
    /\ ListingIdle

\* the fixture's two messages: one unread, one already read; the model keeps
\* one message, in either state
InitMessagesStored ==
    { [id \in MessageIds |-> [read |-> convertForStorage(r)]] : r \in BOOLEAN }

\* start of the message operations: the fixture's mailboxes and one stored
\* message, read or unread
InitMsg ==
    /\ provider \in Providers
    /\ mailboxes = [m \in Mailboxes |-> [Fixture1234 EXCEPT !.number = m]]
    /\ messages \in InitMessagesStored
    /\ InitCalls
    /\ FactoryIdle
    /\ WriterIdle
    /\ InstanceIdle
    /\ SharedIdle
    /\ ProviderIdle
    /\ FolderIdle
    /\ EntityIdle
    /\ ListingIdle

(* ------------------------------------------------------------------ *)
(* Invocations: the synchronous part up to provider.beginTransaction  *)
(* ------------------------------------------------------------------ *)

Invoke(p, name, target, messageRead) ==
    /\ pc[p] = "idle"
    /\ pc' = [pc EXCEPT ![p] = "begin"]
    /\ op' = [op EXCEPT ![p] = [name |-> name, target |-> target,
                                messageRead |-> messageRead]]
    /\ UNCHANGED <<writerVars, instanceVars, sharedVars, factoryVars, queryVars, messageVars, entityVars, listingVars, provider, mailboxes, messages, held, rowRead, counts, local,
                   staged, err, result, trace, mwiArgs, persisted, mailboxes0,
                   expected>>

newMessage(p) ==
    /\ pc[p] = "idle"
    /\ \E m \in Mailboxes : Invoke(p, "newMessage", m, FALSE)

readMessage(p) ==
    /\ pc[p] = "idle"
    /\ \E m \in Mailboxes : Invoke(p, "readMessage", m, FALSE)

deletedMessage(p) ==
    /\ pc[p] = "idle"
    /\ \E m \in Mailboxes, messageRead \in BOOLEAN :
           Invoke(p, "deletedMessage", m, messageRead)

markAsRead(p) ==
    /\ pc[p] = "idle"
    /\ \E id \in MessageIds : Invoke(p, "markAsRead", id, FALSE)

remove(p) ==
    /\ pc[p] = "idle"
    /\ \E id \in MessageIds : Invoke(p, "remove", id, FALSE)

(* ------------------------------------------------------------------ *)
(* provider.beginTransaction(true)                                    *)
(* ------------------------------------------------------------------ *)

\* BEGIN succeeds. Under sqlite BEGIN IMMEDIATE waits for the database write
\* lock; under postgres BEGIN takes no lock.
beginTransaction(p) ==
    /\ pc[p] = "begin"
    /\ beginImmediate(provider, TRUE) => LockFree(DbLock, p)
    /\ held' = [held EXCEPT ![p] =
                  IF beginImmediate(provider, TRUE) THEN DbLock ELSE NoLock]
    /\ trace' = Log(p, <<Stmt("BEGIN", TRUE)>>)
    /\ pc' = [pc EXCEPT ![p] = "select"]
    /\ UNCHANGED <<writerVars, instanceVars, sharedVars, factoryVars, queryVars, messageVars, entityVars, listingVars, provider, mailboxes, messages, op, rowRead, counts, local,
                   staged, err, result, mwiArgs, persisted, mailboxes0, expected>>

\* BEGIN (or the connect before it) fails, e.g. the wait for the sqlite lock
\* times out: beginTransaction's promise rejects, and updateMwi / markAsRead /
\* remove have no handler on it
\* mutant of beginTransactionFail: a failed BEGIN is attempted once more
beginTransactionRetry(p) ==
    /\ pc[p] = "begin"
    /\ trace' = Log(p, <<Stmt("BEGIN", FALSE)>>)
    /\ IF Count(p, "BEGIN") = 0
       THEN UNCHANGED <<pc, result>>
       ELSE /\ pc' = [pc EXCEPT ![p] = "rejected"]
            /\ result' = [result EXCEPT ![p] = Rejected(Failure("begin"))]
    /\ UNCHANGED <<writerVars, instanceVars, sharedVars, factoryVars, queryVars, messageVars, entityVars, listingVars, provider, mailboxes, messages, held, op, rowRead, counts, local,
                   staged, err, mwiArgs, persisted, mailboxes0, expected>>

beginTransactionFail(p) ==
    /\ pc[p] = "begin"
    /\ trace' = Log(p, <<Stmt("BEGIN", FALSE)>>)
    /\ pc' = [pc EXCEPT ![p] = "rejected"]
    /\ result' = [result EXCEPT ![p] = Rejected(Failure("begin"))]
    /\ UNCHANGED <<writerVars, instanceVars, sharedVars, factoryVars, queryVars, messageVars, entityVars, listingVars, provider, mailboxes, messages, held, op, rowRead, counts, local,
                   staged, err, mwiArgs, persisted, mailboxes0, expected>>

(* ------------------------------------------------------------------ *)
(* The locking read                                                   *)
(* ------------------------------------------------------------------ *)

\* mutant of SelectReady: the locking read waits while any other transaction
\* holds a lock, whatever the row
SelectWaitsForAny(p, rowExists) ==
    (forUpdate(provider) /\ rowExists) => \A q \in Procs \ {p} : held[q] = NoLock

\* mutant of SelectReady: the locking read does not wait for the row's lock
SelectNeverWaits(p, rowExists) == TRUE

\* SELECT ... FOR UPDATE waits while another transaction holds the row's lock
\* and takes it when the row exists; a select without the clause takes none
SelectReady(p, rowExists) ==
    (forUpdate(provider) /\ rowExists) => LockFree(op[p].target, p)

\* mutant of HeldAfterSelect: the read takes no row lock
HeldAfterSelectNone(p, rowExists) == held[p]

HeldAfterSelect(p, rowExists) ==
    IF forUpdate(provider) /\ rowExists THEN op[p].target ELSE held[p]

\* mutant of updateMwiSelect: the modifier takes a missing row for a row of
\* null counts, so the callback is invoked and the UPDATE issued all the same
updateMwiSelectLenient(p) ==
    /\ pc[p] = "select"
    /\ IsCounter(p)
    /\ LET m == op[p].target
           rowExists == m \in DOMAIN mailboxes
           row == IF rowExists THEN MailboxRow(mailboxes[m]) ELSE NoRow
           c == modifier(op[p], row)
       IN /\ SelectReady(p, rowExists)
          /\ held' = [held EXCEPT ![p] = HeldAfterSelect(p, rowExists)]
          /\ rowRead' = [rowRead EXCEPT ![p] = row]
          /\ counts' = [counts EXCEPT ![p] = c]
          /\ mwiArgs' = [mwiArgs EXCEPT ![p] = [read |-> c.read, unread |-> c.unread]]
          /\ trace' = Log(p, <<Stmt("SELECT", TRUE), Stmt("mwi", TRUE)>>)
          /\ pc' = [pc EXCEPT ![p] = "mwi"]
          /\ err' = err
    /\ UNCHANGED <<writerVars, instanceVars, sharedVars, factoryVars, queryVars, messageVars, entityVars, listingVars, provider, mailboxes, messages, op, local, staged, result,
                   persisted, mailboxes0, expected>>

\* updateMwi: transaction.runQuery(query) resolves; modifier(result.rows[0]);
\* mwi(counts.read, counts.unread) is called.  With no row, modifier reads a
\* property of undefined and throws, which the catch turns into a rollback.
updateMwiSelect(p) ==
    /\ pc[p] = "select"
    /\ IsCounter(p)
    /\ LET m == op[p].target
           rowExists == m \in DOMAIN mailboxes
       IN /\ SelectReady(p, rowExists)
          /\ held' = [held EXCEPT ![p] = HeldAfterSelect(p, rowExists)]
          /\ IF rowExists
             THEN LET row == MailboxRow(mailboxes[m])
                      c == modifier(op[p], row)
                  IN /\ rowRead' = [rowRead EXCEPT ![p] = row]
                     /\ counts' = [counts EXCEPT ![p] = c]
                     /\ mwiArgs' = [mwiArgs EXCEPT ![p] = [read |-> c.read, unread |-> c.unread]]
                     /\ trace' = Log(p, <<Stmt("SELECT", TRUE), Stmt("mwi", TRUE)>>)
                     /\ pc' = [pc EXCEPT ![p] = "mwi"]
                     /\ err' = err
             ELSE /\ err' = [err EXCEPT ![p] = Failure("modifier")]
                  /\ trace' = Log(p, <<Stmt("SELECT", TRUE)>>)
                  /\ pc' = [pc EXCEPT ![p] = "rollback"]
                  /\ UNCHANGED <<rowRead, counts, mwiArgs>>
    /\ UNCHANGED <<writerVars, instanceVars, sharedVars, factoryVars, queryVars, messageVars, entityVars, listingVars, provider, mailboxes, messages, op, local, staged, result,
                   persisted, mailboxes0, expected>>

\* mutant of selectFail: the rejection of the locking read passes the catch
\* handler by, and the operation rejects with its transaction left open
selectFailUncaught(p) ==
    /\ pc[p] = "select"
    /\ err' = [err EXCEPT ![p] = Failure("select")]
    /\ trace' = Log(p, <<Stmt("SELECT", FALSE)>>)
    /\ pc' = [pc EXCEPT ![p] = "rejected"]
    /\ result' = [result EXCEPT ![p] = Rejected(Failure("select"))]
    /\ UNCHANGED <<writerVars, instanceVars, sharedVars, factoryVars, queryVars, messageVars, entityVars, listingVars, provider, mailboxes, messages, held, op, rowRead, counts, local,
                   staged, mwiArgs, persisted, mailboxes0, expected>>

\* the locking read fails
selectFail(p) ==
    /\ pc[p] = "select"
    /\ err' = [err EXCEPT ![p] = Failure("select")]
    /\ trace' = Log(p, <<Stmt("SELECT", FALSE)>>)
    /\ pc' = [pc EXCEPT ![p] = "rollback"]
    /\ UNCHANGED <<writerVars, instanceVars, sharedVars, factoryVars, queryVars, messageVars, entityVars, listingVars, provider, mailboxes, messages, held, op, rowRead, counts, local,
                   staged, result, mwiArgs, persisted, mailboxes0, expected>>

(* ------------------------------------------------------------------ *)
(* The notification callback                                          *)
(* ------------------------------------------------------------------ *)

\* the promise mwi returned resolves: the update query is built and issued
mwiResolve(p) ==
    /\ pc[p] = "mwi"
    /\ trace' = Log(p, <<Stmt("mwi.settled", TRUE)>>)
    /\ pc' = [pc EXCEPT ![p] = "write"]
    /\ UNCHANGED <<writerVars, instanceVars, sharedVars, factoryVars, queryVars, messageVars, entityVars, listingVars, provider, mailboxes, messages, held, op, rowRead, counts, local,
                   staged, err, result, mwiArgs, persisted, mailboxes0, expected>>

\* mutant of mwiReject: the callback's rejection is swallowed and the chain
\* goes on to the update
mwiRejectSwallowed(p) ==
    /\ pc[p] = "mwi"
    /\ trace' = Log(p, <<Stmt("mwi.settled", FALSE)>>)
    /\ pc' = [pc EXCEPT ![p] = "write"]
    /\ UNCHANGED <<writerVars, instanceVars, sharedVars, factoryVars, queryVars, messageVars, entityVars, listingVars, provider, mailboxes, messages, held, op, rowRead, counts, local,
                   staged, err, result, mwiArgs, persisted, mailboxes0, expected>>

\* the promise mwi returned rejects
mwiReject(p) ==
    /\ pc[p] = "mwi"
    /\ err' = [err EXCEPT ![p] = Failure("mwi")]
    /\ trace' = Log(p, <<Stmt("mwi.settled", FALSE)>>)
    /\ pc' = [pc EXCEPT ![p] = "rollback"]
    /\ UNCHANGED <<writerVars, instanceVars, sharedVars, factoryVars, queryVars, messageVars, entityVars, listingVars, provider, mailboxes, messages, held, op, rowRead, counts, local,
                   staged, result, mwiArgs, persisted, mailboxes0, expected>>

(* ------------------------------------------------------------------ *)
(* Writes inside the transaction                                      *)
(* ------------------------------------------------------------------ *)

\* mutant of updateQuery: the two columns swapped
updateQuerySwapped(c) ==
    [kind |-> "counts", read |-> c.unread, unread |-> c.read, flag |-> "-"]

\* table.update({read: counts.read, unread: counts.unread}) where the key matches
updateQuery(c) == [kind |-> "counts", read |-> c.read, unread |-> c.unread, flag |-> "-"]

\* mutant of updateMwiUpdate: the update does not wait for the promise mwi
\* returned
updateMwiUpdateEarly(p) ==
    /\ pc[p] \in {"mwi", "write"}
    /\ IsCounter(p)
    /\ staged' = [staged EXCEPT ![p] =
                    IF op[p].target \in DOMAIN mailboxes
                    THEN [kind |-> "counts", read |-> counts[p].read,
                          unread |-> counts[p].unread, flag |-> "-"]
                    ELSE NoWrite]
    /\ trace' = Log(p, <<Stmt("UPDATE", TRUE)>>)
    /\ pc' = [pc EXCEPT ![p] = "commit"]
    /\ UNCHANGED <<writerVars, instanceVars, sharedVars, factoryVars, queryVars, messageVars, entityVars, listingVars, provider, mailboxes, messages, held, op, rowRead, counts, local,
                   err, result, mwiArgs, persisted, mailboxes0, expected>>

\* mutant of updateMwiUpdate: the update goes through provider.runQuery, its
\* own committed statement, not through the transaction
updateMwiUpdateAutocommit(p) ==
    /\ pc[p] = "write"
    /\ IsCounter(p)
    /\ mailboxes' =
          IF op[p].target \in DOMAIN mailboxes
          THEN [mailboxes EXCEPT ![op[p].target].read = counts[p].read,
                                 ![op[p].target].unread = counts[p].unread]
          ELSE mailboxes
    /\ trace' = Log(p, <<Stmt("UPDATE", TRUE)>>)
    /\ pc' = [pc EXCEPT ![p] = "commit"]
    /\ UNCHANGED <<writerVars, instanceVars, sharedVars, factoryVars, queryVars, messageVars, entityVars, listingVars, provider, messages, held, op, rowRead, counts, local, staged,
                   err, result, mwiArgs, persisted, mailboxes0, expected>>

\* updateMwi: the UPDATE runs inside the transaction
updateMwiUpdate(p) ==
    /\ pc[p] = "write"
    /\ IsCounter(p)
    /\ staged' = [staged EXCEPT ![p] =
                    IF op[p].target \in DOMAIN mailboxes
                    THEN updateQuery(counts[p]) ELSE NoWrite]
    /\ trace' = Log(p, <<Stmt("UPDATE", TRUE)>>)
    /\ pc' = [pc EXCEPT ![p] = "commit"]
    /\ UNCHANGED <<writerVars, instanceVars, sharedVars, factoryVars, queryVars, messageVars, entityVars, listingVars, provider, mailboxes, messages, held, op, rowRead, counts, local,
                   err, result, mwiArgs, persisted, mailboxes0, expected>>

\* mutant of markAsReadSelect: the stored flag is not looked at, every call
\* on an existing message writes and reports a change
markAsReadSelectAlways(p) ==
    /\ pc[p] = "select"
    /\ op[p].name = "markAsRead"
    /\ LET id == op[p].target
           rowExists == id \in DOMAIN messages
       IN /\ SelectReady(p, rowExists)
          /\ held' = [held EXCEPT ![p] = HeldAfterSelect(p, rowExists)]
          /\ rowRead' = [rowRead EXCEPT ![p] =
                           IF rowExists THEN MessageRow(messages[id]) ELSE NoRow]
          /\ local' = [local EXCEPT ![p].updated = rowExists]
          /\ pc' = [pc EXCEPT ![p] = IF rowExists THEN "write" ELSE "commit"]
    /\ trace' = Log(p, <<Stmt("SELECT", TRUE)>>)
    /\ UNCHANGED <<writerVars, instanceVars, sharedVars, factoryVars, queryVars, messageVars, entityVars, listingVars, provider, mailboxes, messages, op,
                   counts, staged, err, result, mwiArgs, persisted, mailboxes0,
                   expected>>

\* markAsRead: the locking read resolves; when the stored message is unread the
\* update of the read column is issued, otherwise the chain goes on to commit
markAsReadSelect(p) ==
    /\ pc[p] = "select"
    /\ op[p].name = "markAsRead"
    /\ LET id == op[p].target
           rowExists == id \in DOMAIN messages
           unread == rowExists /\ ~convertFromStorage(messages[id].read)
       IN /\ SelectReady(p, rowExists)
          /\ held' = [held EXCEPT ![p] = HeldAfterSelect(p, rowExists)]
          /\ rowRead' = [rowRead EXCEPT ![p] =
                           IF rowExists THEN MessageRow(messages[id]) ELSE NoRow]
          /\ local' = [local EXCEPT ![p].updated = unread]
          /\ pc' = [pc EXCEPT ![p] = IF unread THEN "write" ELSE "commit"]
    /\ trace' = Log(p, <<Stmt("SELECT", TRUE)>>)
    /\ UNCHANGED <<writerVars, instanceVars, sharedVars, factoryVars, queryVars, messageVars, entityVars, listingVars, provider, mailboxes, messages, op, counts, staged, err, result,
                   mwiArgs, persisted, mailboxes0, expected>>

markAsReadUpdate(p) ==
    /\ pc[p] = "write"
    /\ op[p].name = "markAsRead"
    /\ staged' = [staged EXCEPT ![p] =
                    IF op[p].target \in DOMAIN messages
                    THEN [NoWrite EXCEPT !.kind = "markRead",
                                         !.flag = convertForStorage(TRUE)]
                    ELSE NoWrite]
    /\ trace' = Log(p, <<Stmt("UPDATE", TRUE)>>)
    /\ pc' = [pc EXCEPT ![p] = "commit"]
    /\ UNCHANGED <<writerVars, instanceVars, sharedVars, factoryVars, queryVars, messageVars, entityVars, listingVars, provider, mailboxes, messages, held, op, rowRead, counts, local,
                   err, result, mwiArgs, persisted, mailboxes0, expected>>

\* mutant of removeSelect: the row the locking read returned is not kept for
\* the caller
removeSelectNoSnapshot(p) ==
    /\ pc[p] = "select"
    /\ op[p].name = "remove"
    /\ LET id == op[p].target
           rowExists == id \in DOMAIN messages
           row == IF rowExists THEN MessageRow(messages[id]) ELSE NoRow
       IN /\ SelectReady(p, rowExists)
          /\ held' = [held EXCEPT ![p] = HeldAfterSelect(p, rowExists)]
          /\ rowRead' = [rowRead EXCEPT ![p] = row]
          /\ local' = [local EXCEPT ![p].snapshot = NoRow]
    /\ trace' = Log(p, <<Stmt("SELECT", TRUE)>>)
    /\ pc' = [pc EXCEPT ![p] = "write"]
    /\ UNCHANGED <<writerVars, instanceVars, sharedVars, factoryVars, queryVars, messageVars, entityVars, listingVars, provider, mailboxes, messages, op, counts, staged, err, result,
                   mwiArgs, persisted, mailboxes0, expected>>

\* remove: the locking read resolves, its row (or undefined) is kept for the
\* caller, and the delete is issued whether or not a row came back
removeSelect(p) ==
    /\ pc[p] = "select"
    /\ op[p].name = "remove"
    /\ LET id == op[p].target
           rowExists == id \in DOMAIN messages
           row == IF rowExists THEN MessageRow(messages[id]) ELSE NoRow
       IN /\ SelectReady(p, rowExists)
          /\ held' = [held EXCEPT ![p] = HeldAfterSelect(p, rowExists)]
          /\ rowRead' = [rowRead EXCEPT ![p] = row]
          /\ local' = [local EXCEPT ![p].snapshot = row]
    /\ trace' = Log(p, <<Stmt("SELECT", TRUE)>>)
    /\ pc' = [pc EXCEPT ![p] = "write"]
    /\ UNCHANGED <<writerVars, instanceVars, sharedVars, factoryVars, queryVars, messageVars, entityVars, listingVars, provider, mailboxes, messages, op, counts, staged, err, result,
                   mwiArgs, persisted, mailboxes0, expected>>

removeDelete(p) ==
    /\ pc[p] = "write"
    /\ op[p].name = "remove"
    /\ staged' = [staged EXCEPT ![p] =
                    IF op[p].target \in DOMAIN messages
                    THEN [NoWrite EXCEPT !.kind = "delete"] ELSE NoWrite]
    /\ trace' = Log(p, <<Stmt("DELETE", TRUE)>>)
    /\ pc' = [pc EXCEPT ![p] = "commit"]
    /\ UNCHANGED <<writerVars, instanceVars, sharedVars, factoryVars, queryVars, messageVars, entityVars, listingVars, provider, mailboxes, messages, held, op, rowRead, counts, local,
                   err, result, mwiArgs, persisted, mailboxes0, expected>>

\* the write inside the transaction fails
writeFail(p) ==
    /\ pc[p] = "write"
    /\ err' = [err EXCEPT ![p] = Failure("write")]
    /\ trace' = Log(p, <<Stmt(IF op[p].name = "remove" THEN "DELETE" ELSE "UPDATE",
                              FALSE)>>)
    /\ pc' = [pc EXCEPT ![p] = "rollback"]
    /\ UNCHANGED <<writerVars, instanceVars, sharedVars, factoryVars, queryVars, messageVars, entityVars, listingVars, provider, mailboxes, messages, held, op, rowRead, counts, local,
                   staged, result, mwiArgs, persisted, mailboxes0, expected>>

(* ------------------------------------------------------------------ *)
(* transaction.commit / transaction.rollback                          *)
(* ------------------------------------------------------------------ *)

\* the vm_mailbox rows once the write w on row t is made durable
\* mutant of ApplyMailboxes: the UPDATE goes out without its WHERE clause
ApplyMailboxesEverywhere(t, w) ==
    IF w.kind = "counts" /\ t \in DOMAIN mailboxes
    THEN [m \in DOMAIN mailboxes |->
             [mailboxes[m] EXCEPT !.read = w.read, !.unread = w.unread]]
    ELSE mailboxes

ApplyMailboxes(t, w) ==
    IF w.kind = "counts" /\ t \in DOMAIN mailboxes
    THEN [mailboxes EXCEPT ![t].read = w.read, ![t].unread = w.unread]
    ELSE mailboxes

\* the vm_message rows once the write w on row t is made durable
ApplyMessages(t, w) ==
    IF t \notin DOMAIN messages THEN messages
    ELSE CASE w.kind = "markRead" -> [messages EXCEPT ![t].read = w.flag]
           [] w.kind = "delete" -> [id \in DOMAIN messages \ {t} |-> messages[id]]
           [] OTHER -> messages

\* COMMIT makes the transaction's write durable
commitMailboxes(t, w) == ApplyMailboxes(t, w)
commitMessages(t, w) == ApplyMessages(t, w)

\* ROLLBACK drops it
rollbackMailboxes(t, w) == mailboxes
rollbackMessages(t, w) == messages

\* the stored row an invocation targets, as a select would return it
StoredRow(p, mb, ms) ==
    LET t == op[p].target
    IN IF IsCounter(p)
       THEN (IF t \in DOMAIN mb THEN MailboxRow(mb[t]) ELSE NoRow)
       ELSE (IF t \in DOMAIN ms THEN MessageRow(ms[t]) ELSE NoRow)

\* what the operation's promise resolves to: updateMwi returns counts,
\* markAsRead returns updated, remove returns the row it read
Resolved(p) ==
    [Pending EXCEPT !.state = "resolved",
                    !.counts = IF IsCounter(p) THEN counts[p] ELSE NoCounts,
                    !.updated = op[p].name = "markAsRead" /\ local[p].updated,
                    !.snapshot = IF op[p].name = "remove"
                                 THEN local[p].snapshot ELSE NoRow]

\* mutant of commitTransaction: the lock of the transaction outlives COMMIT
commitTransactionKeepsLock(p) ==
    /\ pc[p] = "commit"
    /\ mailboxes' = commitMailboxes(op[p].target, staged[p])
    /\ messages' = commitMessages(op[p].target, staged[p])
    /\ staged' = [staged EXCEPT ![p] = NoWrite]
    /\ trace' = Log(p, <<Stmt("COMMIT", TRUE), Stmt("close", TRUE)>>)
    /\ pc' = [pc EXCEPT ![p] = "resolved"]
    /\ result' = [result EXCEPT ![p] = Resolved(p)]
    /\ persisted' = [persisted EXCEPT ![p] = StoredRow(p, mailboxes', messages')]
    /\ expected' = IF IsCounter(p) /\ op[p].target \in DOMAIN expected
                   THEN [expected EXCEPT ![op[p].target] = modifier(op[p], @)]
                   ELSE expected
    /\ UNCHANGED <<writerVars, instanceVars, sharedVars, factoryVars, queryVars, messageVars, entityVars, listingVars, provider, held, op, rowRead, counts, local, err, mwiArgs, mailboxes0>>

\* COMMIT succeeds; the connection is closed (sqlite) or released (postgres);
\* the operation resolves
commitTransaction(p) ==
    /\ pc[p] = "commit"
    /\ mailboxes' = commitMailboxes(op[p].target, staged[p])
    /\ messages' = commitMessages(op[p].target, staged[p])
    /\ held' = [held EXCEPT ![p] = NoLock]
    /\ staged' = [staged EXCEPT ![p] = NoWrite]
    /\ trace' = Log(p, <<Stmt("COMMIT", TRUE), Stmt("close", TRUE)>>)
    /\ pc' = [pc EXCEPT ![p] = "resolved"]
    /\ result' = [result EXCEPT ![p] = Resolved(p)]
    /\ persisted' = [persisted EXCEPT ![p] = StoredRow(p, mailboxes', messages')]
    /\ expected' = IF IsCounter(p) /\ op[p].target \in DOMAIN expected
                   THEN [expected EXCEPT ![op[p].target] = modifier(op[p], @)]
                   ELSE expected
    /\ UNCHANGED <<writerVars, instanceVars, sharedVars, factoryVars, queryVars, messageVars, entityVars, listingVars, provider, op, rowRead, counts, local, err, mwiArgs, mailboxes0>>

\* COMMIT fails: nothing is made durable, the connection is closed or released
\* all the same (which ends the transaction), and the catch handler runs
commitFail(p) ==
    /\ pc[p] = "commit"
    /\ held' = [held EXCEPT ![p] = NoLock]
    /\ staged' = [staged EXCEPT ![p] = NoWrite]
    /\ err' = [err EXCEPT ![p] = Failure("commit")]
    /\ trace' = Log(p, <<Stmt("COMMIT", FALSE), Stmt("close", TRUE)>>)
    /\ pc' = [pc EXCEPT ![p] = "rollback"]
    /\ UNCHANGED <<writerVars, instanceVars, sharedVars, factoryVars, queryVars, messageVars, entityVars, listingVars, provider, mailboxes, messages, op, rowRead, counts, local,
                   result, mwiArgs, persisted, mailboxes0, expected>>

\* the catch handler: transaction.rollback(), then throw new Error(err) from
\* its finally.  A sqlite connection that commit already closed cannot run
\* ROLLBACK.
rollbackTransaction(p) ==
    /\ pc[p] = "rollback"
    /\ ~(provider = "sqlite" /\ Issued(p, "close"))
    /\ mailboxes' = rollbackMailboxes(op[p].target, staged[p])
    /\ messages' = rollbackMessages(op[p].target, staged[p])
    /\ held' = [held EXCEPT ![p] = NoLock]
    /\ staged' = [staged EXCEPT ![p] = NoWrite]
    /\ trace' = Log(p, <<Stmt("ROLLBACK", TRUE), Stmt("close", TRUE)>>)
    /\ pc' = [pc EXCEPT ![p] = "rejected"]
    /\ result' = [result EXCEPT ![p] = Rejected(NewError(err[p]))]
    /\ UNCHANGED <<writerVars, instanceVars, sharedVars, factoryVars, queryVars, messageVars, entityVars, listingVars, provider, op, rowRead, counts, local, err, mwiArgs, persisted,
                   mailboxes0, expected>>

\* ROLLBACK fails; the connection is closed or released, which ends the
\* transaction without making its write durable; the finally still throws
\* new Error(err) with the error the catch handler received
rollbackFail(p) ==
    /\ pc[p] = "rollback"
    /\ held' = [held EXCEPT ![p] = NoLock]
    /\ staged' = [staged EXCEPT ![p] = NoWrite]
    /\ trace' = Log(p, <<Stmt("ROLLBACK", FALSE), Stmt("close", TRUE)>>)
    /\ pc' = [pc EXCEPT ![p] = "rejected"]
    /\ result' = [result EXCEPT ![p] = Rejected(NewError(err[p]))]
    /\ UNCHANGED <<writerVars, instanceVars, sharedVars, factoryVars, queryVars, messageVars, entityVars, listingVars, provider, mailboxes, messages, op, rowRead, counts, local, err,
                   mwiArgs, persisted, mailboxes0, expected>>

\* the catch handler of the second updateMwi of mailbox.js (the module that
\* keeps provider and table in module variables): transaction.rollback()
\* .then(function() { throw new Error(err); }); when ROLLBACK fails the then
\* is skipped and the promise rejects with the error of the rollback
rollbackThenFail(p) ==
    /\ pc[p] = "rollback"
    /\ IsCounter(p)
    /\ held' = [held EXCEPT ![p] = NoLock]
    /\ staged' = [staged EXCEPT ![p] = NoWrite]
    /\ trace' = Log(p, <<Stmt("ROLLBACK", FALSE), Stmt("close", TRUE)>>)
    /\ pc' = [pc EXCEPT ![p] = "rejected"]
    /\ result' = [result EXCEPT ![p] = Rejected(Failure("rollback"))]
    /\ UNCHANGED <<writerVars, instanceVars, sharedVars, factoryVars, queryVars, messageVars, entityVars, listingVars, provider, mailboxes, messages, op, rowRead, counts, local, err,
                   mwiArgs, persisted, mailboxes0, expected>>

\* the catch handler of message.markAsRead and message.remove:
\* transaction.rollback().finally(function() { throw new Error(err); })
messageRollbackFail(p) == IsMessage(p) /\ rollbackFail(p)

(* ------------------------------------------------------------------ *)
(* common.save / get / remove and mailbox.save / get / remove         *)
(* ------------------------------------------------------------------ *)

\* the caller may start a save / get / remove: it runs no transactional
\* operation and its last call settled
Ready(p) ==
    /\ pc[p] \in {"idle", "resolved", "rejected"}
    /\ ~IsCounter(p) /\ ~IsMessage(p)

\* getFields: the columns whose property on the instance is truthy, with the
\* property's value
getFields(instance) ==
    [c \in {c \in Columns : Truthy(c, instance[c])} |-> instance[c]]

\* removeEmptyFields: the fields whose value is not undefined
removeEmptyFields(fields) ==
    [c \in {c \in DOMAIN fields : ~IsUndefined(c, fields[c])} |-> fields[c]]

\* instanceFromRow with mailbox.get's constructor: create(number, context, id)
\* sets mailboxNumber, every other key is undefined and is filled from the row
instanceFromRow(row, id, number) ==
    [exists |-> TRUE, inserted |-> FALSE, dirty |-> FALSE, id |-> id,
     number |-> number,
     email |-> row.email,
     greeting |-> row.greeting, read |-> row.read, unread |-> row.unread]

\* mailbox.create(number, context, fields): no id, the given fields populated
create(p, fields) ==
    /\ Ready(p)
    /\ inst' = [inst EXCEPT ![p] =
                  [exists |-> TRUE, inserted |-> FALSE, dirty |-> FALSE, id |-> NoId,
                   number |-> fields.number,
                   email |-> fields.email, greeting |-> fields.greeting,
                   read |-> fields.read, unread |-> fields.unread]]
    /\ UNCHANGED <<temp, query, got, indexed, idSeq>>
    /\ UNCHANGED <<writerVars, instanceVars, sharedVars, factoryVars, queryVars, messageVars, listingVars, provider, mailboxes, messages, held, pc, op,
                   rowRead, counts, local, staged, err, result, trace, mwiArgs,
                   persisted, mailboxes0, expected>>

\* the caller takes the instance its get resolved to and goes on with it
load(p) ==
    /\ Ready(p)
    /\ got[p].exists
    /\ inst' = [inst EXCEPT ![p] = got[p]]
    /\ got' = [got EXCEPT ![p] = NoInstance]
    /\ UNCHANGED <<temp, query, indexed, idSeq>>
    /\ UNCHANGED <<writerVars, instanceVars, sharedVars, factoryVars, queryVars, messageVars, listingVars, provider, mailboxes, messages, held, pc, op,
                   rowRead, counts, local, staged, err, result, trace, mwiArgs,
                   persisted, mailboxes0, expected>>

\* the caller assigns the attribute c of its instance
modify(p, c, v) ==
    /\ Ready(p)
    /\ inst[p].exists
    /\ inst[p][c] # v
    /\ inst' = [inst EXCEPT ![p][c] = v, ![p].dirty = TRUE]
    /\ UNCHANGED <<temp, query, got, indexed, idSeq>>
    /\ UNCHANGED <<writerVars, instanceVars, sharedVars, factoryVars, queryVars, messageVars, listingVars, provider, mailboxes, messages, held, pc, op,
                   rowRead, counts, local, staged, err, result, trace, mwiArgs,
                   persisted, mailboxes0, expected>>

\* mutant of blanked: mailbox.save hands the instance to common.save as it is
blankedNot(instance) == instance

\* mailbox.save: read and unread of an instance that has an id are set to
\* undefined before common.save
blanked(instance) ==
    IF instance.id # NoId
    THEN [instance EXCEPT !.read = UNDEFINED, !.unread = UNDEFINED]
    ELSE instance

\* common.save: update by id of removeEmptyFields(getFields) when getId() is
\* set, insert of getFields otherwise
saveQuery(instance) ==
    IF instance.id # NoId
    THEN [NoQuery EXCEPT !.kind = "update",
                         !.fields = removeEmptyFields(getFields(instance)),
                         !.id = instance.id]
    ELSE [NoQuery EXCEPT !.kind = "insert", !.fields = getFields(instance)]

\* mailbox.save(instance), up to the call of provider.runQuery
mailboxSave(p) ==
    /\ Ready(p)
    /\ inst[p].exists
    /\ temp' = [temp EXCEPT ![p] =
                  IF inst[p].id # NoId
                  THEN [read |-> inst[p].read, unread |-> inst[p].unread]
                  ELSE NoTemp]
    /\ inst' = [inst EXCEPT ![p] = blanked(inst[p])]
    /\ query' = [query EXCEPT ![p] = saveQuery(blanked(inst[p]))]
    /\ op' = [op EXCEPT ![p] = [name |-> "mailbox.save", target |-> inst[p].number,
                                messageRead |-> FALSE]]
    /\ pc' = [pc EXCEPT ![p] = "runQuery"]
    /\ UNCHANGED <<got, indexed, idSeq>>
    /\ UNCHANGED <<writerVars, instanceVars, sharedVars, factoryVars, queryVars, messageVars, listingVars, provider, mailboxes, messages, held, rowRead,
                   counts, local, staged, err, result, trace, mwiArgs, persisted,
                   mailboxes0, expected>>

\* mailbox.get(number, context), up to the call of provider.runQuery
mailboxGet(p, number) ==
    /\ Ready(p)
    /\ query' = [query EXCEPT ![p] = [NoQuery EXCEPT !.kind = "select",
                                                     !.number = number]]
    /\ op' = [op EXCEPT ![p] = [name |-> "mailbox.get", target |-> number,
                                messageRead |-> FALSE]]
    /\ pc' = [pc EXCEPT ![p] = "runQuery"]
    /\ UNCHANGED <<inst, temp, got, indexed, idSeq>>
    /\ UNCHANGED <<writerVars, instanceVars, sharedVars, factoryVars, queryVars, messageVars, listingVars, provider, mailboxes, messages, held, rowRead,
                   counts, local, staged, err, result, trace, mwiArgs, persisted,
                   mailboxes0, expected>>

\* mailbox.remove(instance) of an instance that has an id, up to the call of
\* provider.runQuery
mailboxRemove(p) ==
    /\ Ready(p)
    /\ inst[p].exists
    /\ inst[p].id # NoId
    /\ query' = [query EXCEPT ![p] = [NoQuery EXCEPT !.kind = "delete",
                                                     !.id = inst[p].id]]
    /\ op' = [op EXCEPT ![p] = [name |-> "mailbox.remove", target |-> inst[p].number,
                                messageRead |-> FALSE]]
    /\ pc' = [pc EXCEPT ![p] = "runQuery"]
    /\ UNCHANGED <<inst, temp, got, indexed, idSeq>>
    /\ UNCHANGED <<writerVars, instanceVars, sharedVars, factoryVars, queryVars, messageVars, listingVars, provider, mailboxes, messages, held, rowRead,
                   counts, local, staged, err, result, trace, mwiArgs, persisted,
                   mailboxes0, expected>>

\* the row an insert of the fields f stores: a column left out holds NULL
InsertedRow(f) ==
    [c \in Columns |-> IF c \in DOMAIN f THEN f[c] ELSE StoredNull(c)]

\* the row an update of the fields f leaves: a column left out keeps its value
UpdatedRow(row, f) ==
    [c \in Columns |-> IF c \in DOMAIN f THEN f[c] ELSE row[c]]

\* the insert violates a NOT NULL column or, when the indexes were created,
\* the unique index on the mailbox number within the context
InsertViolates(f) ==
    \/ \E c \in NotNullColumns : c \notin DOMAIN f
    \/ indexed /\ \E id \in DOMAIN mailboxes : mailboxes[id].number = f["number"]

\* the statement q of caller p waits for no lock: a write waits for the
\* database lock under sqlite and for the row's lock under postgres
QueryReady(p, q) ==
    CASE q.kind = "select" -> TRUE
      [] provider = "sqlite" -> LockFree(DbLock, p)
      [] q.kind = "insert" -> TRUE
      [] OTHER -> LockFree(q.id, p)

\* the vm_mailbox rows once the statement q committed
RowsAfter(q) ==
    CASE q.kind = "insert" ->
           [id \in DOMAIN mailboxes \cup {NewIdSeq[idSeq + 1]} |->
              IF id \in DOMAIN mailboxes THEN mailboxes[id] ELSE InsertedRow(q.fields)]
      [] q.kind = "update" ->
           [id \in DOMAIN mailboxes |->
              IF id = q.id THEN UpdatedRow(mailboxes[id], q.fields) ELSE mailboxes[id]]
      [] q.kind = "delete" ->
           [id \in DOMAIN mailboxes \ {q.id} |-> mailboxes[id]]
      [] OTHER -> mailboxes

\* provider.runQuery(query) of a write resolves: BEGIN, the statement, COMMIT.
\* mailbox.save's continuation puts read and unread back on the instance.
runQueryWrite(p) ==
    /\ pc[p] = "runQuery"
    /\ query[p].kind \in {"insert", "update", "delete"}
    /\ QueryReady(p, query[p])
    /\ query[p].kind = "insert" => (~InsertViolates(query[p].fields)
                                     /\ idSeq < Len(NewIdSeq))
    /\ mailboxes' = RowsAfter(query[p])
    /\ idSeq' = IF query[p].kind = "insert" THEN idSeq + 1 ELSE idSeq
    /\ inst' = [inst EXCEPT ![p] =
                  CASE op[p].name = "mailbox.save" /\ inst[p].id # NoId ->
                         [@ EXCEPT !.read = temp[p].read, !.unread = temp[p].unread,
                                   !.dirty = FALSE]
                    [] query[p].kind = "insert" ->
                         [@ EXCEPT !.inserted = TRUE, !.dirty = FALSE]
                    [] OTHER -> @]
    /\ query' = [query EXCEPT ![p] =
                   [@ EXCEPT !.fields = NoFields,
                             !.matched = \/ query[p].kind = "insert"
                                         \/ query[p].id \in DOMAIN mailboxes]]
    /\ temp' = [temp EXCEPT ![p] = NoTemp]
    /\ pc' = [pc EXCEPT ![p] = "resolved"]
    /\ UNCHANGED <<got, indexed>>
    /\ UNCHANGED <<writerVars, instanceVars, sharedVars, factoryVars, queryVars, messageVars, listingVars, provider, messages, held, op, rowRead, counts,
                   local, staged, err, result, trace, mwiArgs, persisted,
                   mailboxes0, expected>>

\* mutant of runQuerySelect: instanceFromRow without its test of the row; a
\* lookup that matches no row does not resolve
runQuerySelectNoNull(p) ==
    /\ pc[p] = "runQuery"
    /\ query[p].kind = "select"
    /\ \E id \in DOMAIN mailboxes :
          /\ mailboxes[id].number = query[p].number
          /\ got' = [got EXCEPT ![p] =
                       instanceFromRow(mailboxes[id], id, query[p].number)]
    /\ query' = [query EXCEPT ![p].matched = TRUE]
    /\ pc' = [pc EXCEPT ![p] = "resolved"]
    /\ UNCHANGED <<inst, temp, indexed, idSeq>>
    /\ UNCHANGED <<writerVars, instanceVars, sharedVars, factoryVars, queryVars, messageVars, listingVars, provider, mailboxes, messages, held, op, rowRead,
                   counts, local, staged, err, result, trace, mwiArgs,
                   persisted, mailboxes0, expected>>

\* provider.runQuery(query) of mailbox.get's select resolves; common.get
\* returns instanceFromRow(result.rows[0]), null when no row matched.  The
\* select has no ORDER BY: any matching row may come first.
runQuerySelect(p) ==
    /\ pc[p] = "runQuery"
    /\ query[p].kind = "select"
    /\ LET matching == {id \in DOMAIN mailboxes :
                          mailboxes[id].number = query[p].number}
       IN /\ IF matching = {}
             THEN got' = [got EXCEPT ![p] = NoInstance]
             ELSE \E id \in matching :
                     got' = [got EXCEPT ![p] =
                               instanceFromRow(mailboxes[id], id, query[p].number)]
          /\ query' = [query EXCEPT ![p].matched = matching # {}]
    /\ pc' = [pc EXCEPT ![p] = "resolved"]
    /\ UNCHANGED <<inst, temp, indexed, idSeq>>
    /\ UNCHANGED <<writerVars, instanceVars, sharedVars, factoryVars, queryVars, messageVars, listingVars, provider, mailboxes, messages, held, op, rowRead,
                   counts, local, staged, err, result, trace, mwiArgs,
                   persisted, mailboxes0, expected>>

\* provider.runQuery(query) rejects (a violated constraint, a busy database,
\* a lost connection): the statement is rolled back and no continuation of
\* save or get runs
runQueryFail(p) ==
    /\ pc[p] = "runQuery"
    /\ query' = [query EXCEPT ![p].fields = NoFields]
    /\ temp' = [temp EXCEPT ![p] = NoTemp]
    /\ pc' = [pc EXCEPT ![p] = "rejected"]
    /\ UNCHANGED <<inst, got, indexed, idSeq>>
    /\ UNCHANGED <<writerVars, instanceVars, sharedVars, factoryVars, queryVars, messageVars, listingVars, provider, mailboxes, messages, held, op, rowRead,
                   counts, local, staged, err, result, trace, mwiArgs,
                   persisted, mailboxes0, expected>>

(* ------------------------------------------------------------------ *)
(* message.all                                                        *)
(* ------------------------------------------------------------------ *)

\* calculateRuns: even limit runs plus any remainder
calculateRuns(count) ==
    (count \div limit) + (IF count % limit > 0 THEN 1 ELSE 0)

Min(a, b) == IF a <= b THEN a ELSE b

\* the places i where the rows i and i + 1 carry the same date
TiePositions(rows) == {i \in 1..(Len(rows) - 1) : rows[i] = rows[i + 1]}

\* ORDER BY date: the ids of the rows by ascending date, the two rows of each
\* tie in S the other way round; the order of rows with equal dates is the
\* database's choice
Ordered(rows, S) ==
    [i \in 1..Len(rows) |->
        IF i \in S THEN i + 1 ELSE IF (i - 1) \in S THEN i - 1 ELSE i]

\* ... LIMIT limit OFFSET offset of the ordered rows
Window(ordered, offset) ==
    SubSeq(ordered, offset + 1, Min(offset + limit, Len(ordered)))

\* results.reduce(messages.concat(batch), []): the batches in run order
RECURSIVE Flatten(_, _)
Flatten(batches, k) ==
    IF k = 0 THEN <<>> ELSE Flatten(batches, k - 1) \o batches[k].rows

\* message.all(mailbox, folder) is called: the count query is issued
all ==
    /\ allOut.state = "idle"
    /\ allOut' = [allOut EXCEPT !.state = "count"]
    /\ UNCHANGED <<folderRows, countResult, batchOut>>
    /\ UNCHANGED <<writerVars, instanceVars, sharedVars, factoryVars, queryVars, messageVars, entityVars, provider, mailboxes, messages, held, pc, op,
                   rowRead, counts, local, staged, err, result, trace, mwiArgs,
                   persisted, mailboxes0, expected>>

\* count resolves; getPromises issues one batch query per run
count ==
    /\ allOut.state = "count"
    /\ countResult' = Len(folderRows)
    /\ batchOut' = [k \in 1..calculateRuns(Len(folderRows)) |-> NoBatch]
    /\ allOut' = [allOut EXCEPT !.state = "batches"]
    /\ UNCHANGED folderRows
    /\ UNCHANGED <<writerVars, instanceVars, sharedVars, factoryVars, queryVars, messageVars, entityVars, provider, mailboxes, messages, held, pc, op,
                   rowRead, counts, local, staged, err, result, trace, mwiArgs,
                   persisted, mailboxes0, expected>>

\* the count query or a batch query rejects, and so does message.all
listingFail ==
    /\ allOut.state \in {"count", "batches"}
    /\ allOut.state = "batches" => \E k \in DOMAIN batchOut : ~batchOut[k].done
    /\ allOut' = [allOut EXCEPT !.state = "rejected"]
    /\ UNCHANGED <<folderRows, countResult, batchOut>>
    /\ UNCHANGED <<writerVars, instanceVars, sharedVars, factoryVars, queryVars, messageVars, entityVars, provider, mailboxes, messages, held, pc, op,
                   rowRead, counts, local, staged, err, result, trace, mwiArgs,
                   persisted, mailboxes0, expected>>

\* the batch query of run k resolves, in a transaction of its own:
\* getMessageBatch((k - 1) * limit)
getMessageBatch(k) ==
    /\ allOut.state = "batches"
    /\ k \in DOMAIN batchOut
    /\ ~batchOut[k].done
    /\ \E S \in SUBSET TiePositions(folderRows) :
          batchOut' = [batchOut EXCEPT ![k] =
              [done |-> TRUE,
               rows |-> Window(Ordered(folderRows, S), (k - 1) * limit)]]
    /\ UNCHANGED <<folderRows, countResult, allOut>>
    /\ UNCHANGED <<writerVars, instanceVars, sharedVars, factoryVars, queryVars, messageVars, entityVars, provider, mailboxes, messages, held, pc, op,
                   rowRead, counts, local, staged, err, result, trace, mwiArgs,
                   persisted, mailboxes0, expected>>

\* Q.all(promises) resolves once every batch did; the batches are
\* concatenated in run order
allResolve ==
    /\ allOut.state = "batches"
    /\ \A k \in DOMAIN batchOut : batchOut[k].done
    /\ allOut' = [state |-> "resolved", messages |-> Flatten(batchOut, Len(batchOut))]
    /\ UNCHANGED <<folderRows, countResult, batchOut>>
    /\ UNCHANGED <<writerVars, instanceVars, sharedVars, factoryVars, queryVars, messageVars, entityVars, provider, mailboxes, messages, held, pc, op,
                   rowRead, counts, local, staged, err, result, trace, mwiArgs,
                   persisted, mailboxes0, expected>>

(* ------------------------------------------------------------------ *)
(* db.js: the repository factory                                      *)
(* ------------------------------------------------------------------ *)

\* cache[k] as JavaScript reads it: the own property if the object has one,
\* else the property of that name inherited from Object.prototype, else
\* undefined
Lookup(k) ==
    IF cache[k] # NoRepos THEN cache[k]
    ELSE IF k \in ObjectPrototype THEN Inherited
    ELSE NoRepos

\* module.exports(dbConfig, dependencies): return the cached set if
\* cache[dbConfig.connectionString] is truthy, else create the six
\* repositories, cache them under the string and return them
factory(connectionString, providerName) ==
    /\ IF Lookup(connectionString) # NoRepos
       THEN /\ loaded' = [connectionString |-> connectionString,
                          repos |-> Lookup(connectionString), fromCache |-> TRUE]
            /\ UNCHANGED <<cache, created>>
       ELSE /\ created' = created + 1
            /\ cache' = [cache EXCEPT ![connectionString] =
                            Repos(created', connectionString, providerName)]
            /\ loaded' = [connectionString |-> connectionString,
                          repos |-> cache'[connectionString], fromCache |-> FALSE]
    /\ UNCHANGED <<writerVars, instanceVars, sharedVars, callVars, entityVars, listingVars, queryVars, messageVars>>

(* ------------------------------------------------------------------ *)
(* provider.runQuery and provider.beginTransaction: the connection    *)
(* ------------------------------------------------------------------ *)

\* the statements handed to the provider: the CREATE UNIQUE INDEX of
\* createIndexes, or any other statement
Statements == {"createIndex", "other"}

\* what the engine answers to a CREATE INDEX under a name that is taken
AlreadyExists == Failure("index already exists")

At(p, api, where) == rq[p].api = api /\ rq[p].pc = where

\* close() of sqlite, done() of postgres: one more call; the connection is
\* closed or released (closing a closed database changes nothing)
Closed(r) ==
    [r EXCEPT !.closes = @ + 1, !.conn = IF @ = "none" THEN "none" ELSE "closed"]

\* a statement cannot run on a closed sqlite database; a released postgres
\* client still takes statements
Usable(p) == provider = "sqlite" => rq[p].conn = "open"

Settle(r, state, e) == [r EXCEPT !.pc = "settled", !.state = state, !.err = e]

\* the caller has no call of the provider under way and holds no transaction
CanCall(p) == rq[p].api = "none" \/ At(p, "runQuery", "settled")

ProviderFrame ==
    UNCHANGED <<writerVars, instanceVars, sharedVars, callVars, inst, temp, query, got, idSeq, listingVars, factoryVars,
                messageVars>>

\* sqlite opens the database with new sqlite3.Database(connectionString) and
\* issues BEGIN; postgres first asks the pool for a client
Opened(p, api, stmt) ==
    IF provider = "sqlite"
    THEN [NoCall EXCEPT !.api = api, !.stmt = stmt, !.conn = "open", !.pc = "begin"]
    ELSE [NoCall EXCEPT !.api = api, !.stmt = stmt, !.pc = "connect"]

\* provider.runQuery(query) is called
providerRunQuery(p, stmt) ==
    /\ CanCall(p)
    /\ rq' = [rq EXCEPT ![p] = Opened(p, "runQuery", stmt)]
    /\ UNCHANGED indexed
    /\ ProviderFrame

\* common.createIndex: provider.runQuery(CREATE UNIQUE INDEX ...)
createIndex(p) == providerRunQuery(p, "createIndex")

\* provider.beginTransaction(lock) is called
providerBeginTransaction(p) ==
    /\ CanCall(p)
    /\ rq' = [rq EXCEPT ![p] = Opened(p, "transaction", "other")]
    /\ UNCHANGED indexed
    /\ ProviderFrame

\* pg.connect hands out a client and its done()
connect(p) ==
    /\ rq[p].pc = "connect"
    /\ rq' = [rq EXCEPT ![p] = [@ EXCEPT !.conn = "open", !.pc = "begin"]]
    /\ UNCHANGED indexed
    /\ ProviderFrame

\* pg.connect fails: there is no client and nothing to release
connectFail(p) ==
    /\ rq[p].pc = "connect"
    /\ rq' = [rq EXCEPT ![p] = Settle(@, "rejected", Failure("connect"))]
    /\ UNCHANGED indexed
    /\ ProviderFrame

\* runQuery: BEGIN succeeded
runQueryBegin(p) ==
    /\ At(p, "runQuery", "begin")
    /\ rq' = [rq EXCEPT ![p] = [@ EXCEPT !.pc = "exec"]]
    /\ UNCHANGED indexed
    /\ ProviderFrame

\* runQuery: BEGIN failed; the catch handler takes over
runQueryBeginFail(p) ==
    /\ At(p, "runQuery", "begin")
    /\ rq' = [rq EXCEPT ![p] = [@ EXCEPT !.pc = "rollback", !.err = Failure("begin")]]
    /\ UNCHANGED indexed
    /\ ProviderFrame

\* the index exists, committed or created by a transaction still open
IndexTaken(p) == indexed \/ \E q \in Procs \ {p} : rq[q].staged

\* runQuery: the statement ran; a CREATE INDEX runs when the name is free
\* and waits while another open transaction created it
runQueryExec(p) ==
    /\ At(p, "runQuery", "exec")
    /\ rq[p].stmt = "createIndex" => ~IndexTaken(p)
    /\ rq' = [rq EXCEPT ![p] = [@ EXCEPT !.pc = "commit",
                                         !.staged = (rq[p].stmt = "createIndex")]]
    /\ UNCHANGED indexed
    /\ ProviderFrame

\* runQuery: the engine refuses the CREATE INDEX because the index exists
runQueryExecExists(p) ==
    /\ At(p, "runQuery", "exec")
    /\ rq[p].stmt = "createIndex" /\ indexed
    /\ rq' = [rq EXCEPT ![p] = [@ EXCEPT !.pc = "rollback", !.err = AlreadyExists]]
    /\ UNCHANGED indexed
    /\ ProviderFrame

\* runQuery: the statement failed for another reason
runQueryExecFail(p) ==
    /\ At(p, "runQuery", "exec")
    /\ rq' = [rq EXCEPT ![p] = [@ EXCEPT !.pc = "rollback", !.err = Failure("exec")]]
    /\ UNCHANGED indexed
    /\ ProviderFrame

\* mutant of runQueryCommit: the connection is not closed after COMMIT
runQueryCommitLeak(p) ==
    /\ At(p, "runQuery", "commit")
    /\ indexed' = (indexed \/ rq[p].staged)
    /\ rq' = [rq EXCEPT ![p] = Settle([@ EXCEPT !.staged = FALSE], "resolved", NoErr)]
    /\ ProviderFrame

\* runQuery: COMMIT succeeded; sqlite closes in the finally of COMMIT,
\* postgres releases in the finally of the chain; the promise resolves
runQueryCommit(p) ==
    /\ At(p, "runQuery", "commit")
    /\ indexed' = (indexed \/ rq[p].staged)
    /\ rq' = [rq EXCEPT ![p] =
                 Settle(Closed([@ EXCEPT !.staged = FALSE]), "resolved", NoErr)]
    /\ ProviderFrame

\* runQuery: COMMIT failed; sqlite closes in the finally of COMMIT before the
\* catch handler runs, postgres keeps the client until the end of the chain
runQueryCommitFail(p) ==
    /\ At(p, "runQuery", "commit")
    /\ rq' = [rq EXCEPT ![p] =
                 [(IF provider = "sqlite" THEN Closed(@) ELSE @)
                    EXCEPT !.pc = "rollback", !.staged = FALSE,
                           !.err = Failure("commit")]]
    /\ UNCHANGED indexed
    /\ ProviderFrame

\* mutant of runQueryRollback: the rejection carries no trace of the error
\* the catch handler received
runQueryRollbackBare(p) ==
    /\ At(p, "runQuery", "rollback")
    /\ Usable(p)
    /\ rq' = [rq EXCEPT ![p] = Settle(Closed(@), "rejected", Failure("rollback"))]
    /\ UNCHANGED indexed
    /\ ProviderFrame

\* runQuery: ROLLBACK succeeded; the connection is closed or released and
\* the promise rejects with new Error(err)
runQueryRollback(p) ==
    /\ At(p, "runQuery", "rollback")
    /\ Usable(p)
    /\ rq' = [rq EXCEPT ![p] = Settle(Closed(@), "rejected", NewError(rq[p].err))]
    /\ UNCHANGED indexed
    /\ ProviderFrame

\* runQuery: ROLLBACK failed; sqlite still closes and throws new Error(err)
\* from its last finally, postgres skips the then that throws new Error(err),
\* rejects with the error of ROLLBACK and releases the client
runQueryRollbackFail(p) ==
    /\ At(p, "runQuery", "rollback")
    /\ rq' = [rq EXCEPT ![p] =
                 Settle(Closed(@), "rejected",
                        IF provider = "sqlite" THEN NewError(rq[p].err)
                        ELSE Failure("rollback"))]
    /\ UNCHANGED indexed
    /\ ProviderFrame

\* beginTransaction: BEGIN succeeded; the promise resolves with the
\* transaction's commit, rollback and runQuery
transactionBegin(p) ==
    /\ At(p, "transaction", "begin")
    /\ rq' = [rq EXCEPT ![p] = [@ EXCEPT !.pc = "active", !.state = "resolved"]]
    /\ UNCHANGED indexed
    /\ ProviderFrame

\* beginTransaction: BEGIN failed; the promise rejects, and nothing closes
\* the database or releases the client
transactionBeginFail(p) ==
    /\ At(p, "transaction", "begin")
    /\ rq' = [rq EXCEPT ![p] = Settle(@, "rejected", Failure("begin"))]
    /\ UNCHANGED indexed
    /\ ProviderFrame

\* transaction.commit(): COMMIT succeeded or failed, finally close / done
commitTransactionCall(p, ok) ==
    /\ At(p, "transaction", "active")
    /\ rq' = [rq EXCEPT ![p] =
                 [Closed(@) EXCEPT !.pc = IF ok THEN "committed" ELSE "commitFailed",
                                   !.state = IF ok THEN "resolved" ELSE "rejected",
                                   !.err = IF ok THEN NoErr ELSE Failure("commit")]]
    /\ UNCHANGED indexed
    /\ ProviderFrame

\* transaction.rollback(), called on an open transaction or by the caller's
\* catch handler after a failed commit: ROLLBACK succeeded or failed,
\* finally close / done
rollbackTransactionCall(p, ok) ==
    /\ rq[p].api = "transaction" /\ rq[p].pc \in {"active", "commitFailed"}
    /\ ok => Usable(p)
    /\ rq' = [rq EXCEPT ![p] =
                 [Closed(@) EXCEPT !.pc = "rolledBack",
                                   !.state = IF ok THEN "resolved" ELSE "rejected",
                                   !.err = IF ok THEN NoErr ELSE Failure("rollback")]]
    /\ UNCHANGED indexed
    /\ ProviderFrame

(* ------------------------------------------------------------------ *)
(* message.get / latest / changeFolder                                *)
(* ------------------------------------------------------------------ *)

Folders == {"INBOX", "Old"}

\* instants in milliseconds at which messages were saved (init sets
\* this.date = moment.utc()): around the turn of a minute, on and off the
\* full second
Instants == {59000, 59500, 60000, 60500}

\* the dates latest is called with: full seconds, among them the dates the
\* repository hands out for the stored messages
LatestDates == {0, 59000, 60000, 61000}

\* sqlite stores date.unix(), the epoch seconds; postgres the moment as it is
convertDateForStorage(providerName, date) ==
    IF providerName = "sqlite" THEN date \div 1000 ELSE date

\* sqlite: moment.unix(date).utc(); postgres:
\* moment.utc(moment(date).format('YYYY-MM-DD HH:mm')), which drops the
\* seconds (the host's zone is UTC)
convertDateFromStorage(providerName, date) ==
    IF providerName = "sqlite" THEN date * 1000 ELSE (date \div 60000) * 60000

\* a vm_message row as it was stored for a message saved at instant t
StoredMessage(id, mailbox, folder, t, read, callerId) ==
    [id |-> id, mailbox |-> mailbox, folder |-> folder,
     date |-> convertDateForStorage(provider, t), read |-> convertForStorage(read),
     callerId |-> callerId, duration |-> "10", recording |-> "awesome-message.wav"]

\* instanceFromRow with create(mailbox, folder, id) as constructor, then
\* message.convertFromStorage: read and date in object format
messageFromRow(row, mailbox, folder) ==
    [id |-> row.id, mailbox |-> mailbox, folder |-> folder,
     date |-> convertDateFromStorage(provider, row.date),
     read |-> convertFromStorage(row.read),
     callerId |-> row.callerId, duration |-> row.duration,
     recording |-> row.recording]

\* the orders in which a set of rows can be listed
Orders(S) ==
    {o \in [1..Cardinality(S) -> S] : \A i, j \in DOMAIN o : i # j => o[i] # o[j]}

\* ORDER BY date: ascending; the order of rows of one date is the engine's
ByDate(o) == \A i, j \in DOMAIN o : i < j => msgRows[o[i]].date <= msgRows[o[j]].date

\* WHERE mailbox_id = .. AND folder_id = .. AND date >= ..
LatestWhere(mailbox, folder, date) ==
    {id \in DOMAIN msgRows :
        /\ msgRows[id].mailbox = mailbox
        /\ msgRows[id].folder = folder
        /\ msgRows[id].date >= convertDateForStorage(provider, date)}

FolderFrame ==
    UNCHANGED <<writerVars, instanceVars, sharedVars, callVars, entityVars, listingVars, factoryVars, queryVars>>

\* message.get(instance) for the instance of a stored message, as all or
\* latest handed it out
messageGet(id) ==
    /\ id \in DOMAIN msgRows
    /\ msg' = messageFromRow(msgRows[id], msgRows[id].mailbox, msgRows[id].folder)
    /\ UNCHANGED <<msgRows, latestOut>>
    /\ FolderFrame

\* mutant of latest: the date is compared with > instead of >=
latestAfter(mailbox, folder, date) ==
    /\ \E o \in Orders({id \in LatestWhere(mailbox, folder, date) :
                          msgRows[id].date > convertDateForStorage(provider, date)}) :
          /\ ByDate(o)
          /\ latestOut' = [state |-> "resolved", mailbox |-> mailbox,
                           folder |-> folder, date |-> date,
                           messages |-> [i \in DOMAIN o |->
                                            messageFromRow(msgRows[o[i]], mailbox, folder)]]
    /\ UNCHANGED <<msgRows, msg>>
    /\ FolderFrame

\* message.latest(mailbox, folder, latestMessage): one select through
\* common.find, the rows mapped to instances in the order of the result
latest(mailbox, folder, date) ==
    /\ \E o \in Orders(LatestWhere(mailbox, folder, date)) :
          /\ ByDate(o)
          /\ latestOut' = [state |-> "resolved", mailbox |-> mailbox,
                           folder |-> folder, date |-> date,
                           messages |-> [i \in DOMAIN o |->
                                            messageFromRow(msgRows[o[i]], mailbox, folder)]]
    /\ UNCHANGED <<msgRows, msg>>
    /\ FolderFrame

\* message.latest: the select fails
latestFail(mailbox, folder, date) ==
    /\ latestOut' = [state |-> "rejected", mailbox |-> mailbox, folder |-> folder,
                     date |-> date, messages |-> <<>>]
    /\ UNCHANGED <<msgRows, msg>>
    /\ FolderFrame

\* what getFields keeps of the instance convertForStorage prepared: the
\* columns whose value is truthy (a moment is an object and always truthy,
\* epoch seconds of 0 are not) and the two references
KeepsDate(date) == provider = "postgres" \/ date # 0
KeepsText(text) == text \notin {UndefinedString, NullString, ""}

\* message.changeFolder(message, folder): a copy of the held instance with
\* the other folder and the same id is saved: convertForStorage, then the
\* UPDATE ... WHERE id = getId() of common.save
changeFolder(folder) ==
    /\ msg # NoMessage
    /\ LET date == convertDateForStorage(provider, msg.date)
           id == msg.id
       IN msgRows' =
            [i \in DOMAIN msgRows |->
                IF i # id THEN msgRows[i]
                ELSE [id |-> msgRows[i].id,
                      mailbox |-> msg.mailbox,
                      folder |-> folder,
                      date |-> IF KeepsDate(date) THEN date ELSE msgRows[i].date,
                      read |-> convertForStorage(msg.read),
                      callerId |-> IF KeepsText(msg.callerId) THEN msg.callerId
                                   ELSE msgRows[i].callerId,
                      duration |-> IF KeepsText(msg.duration) THEN msg.duration
                                   ELSE msgRows[i].duration,
                      recording |-> IF KeepsText(msg.recording) THEN msg.recording
                                    ELSE msgRows[i].recording]]
    /\ UNCHANGED <<msg, latestOut>>
    /\ FolderFrame

(* ------------------------------------------------------------------ *)
(* mailbox.save on an instance several callers share                  *)
(* ------------------------------------------------------------------ *)

SharedFrame ==
    UNCHANGED <<writerVars, instanceVars, callVars, entityVars, listingVars, factoryVars, queryVars, messageVars>>

\* mailbox.save(instance), up to the call of provider.runQuery: the counts of
\* an instance that has an id go to temp and are set to undefined, and
\* common.save builds its statement from the instance as it is then
saveShared(c) ==
    /\ saving[c].pc = "idle"
    /\ sharedInstance.exists
    /\ sharedInstance' = blanked(sharedInstance)
    /\ saving' = [saving EXCEPT ![c] =
                    [pc |-> "runQuery",
                     temp |-> IF sharedInstance.id # NoId
                              THEN [read |-> sharedInstance.read, unread |-> sharedInstance.unread]
                              ELSE NoTemp,
                     query |-> saveQuery(blanked(sharedInstance)),
                     before |-> [read |-> sharedInstance.read, unread |-> sharedInstance.unread],
                     phase |-> IF \A d \in SaveCalls : saving[d].pc = "idle"
                               THEN "first"
                               ELSE IF \E d \in SaveCalls : saving[d].pc = "runQuery"
                                    THEN "overlapping" ELSE "later"]]
    /\ SharedFrame

\* provider.runQuery resolves: the statement is committed, and the then of
\* mailbox.save puts temp back on an instance that has an id
saveSharedResolve(c) ==
    /\ saving[c].pc = "runQuery"
    /\ saving[c].query.kind = "insert" =>
          (~InsertViolates(saving[c].query.fields) /\ idSeq < Len(NewIdSeq))
    /\ mailboxes' = RowsAfter(saving[c].query)
    /\ idSeq' = IF saving[c].query.kind = "insert" THEN idSeq + 1 ELSE idSeq
    /\ sharedInstance' = IF sharedInstance.id # NoId
                   THEN [sharedInstance EXCEPT !.read = saving[c].temp.read,
                                         !.unread = saving[c].temp.unread]
                   ELSE sharedInstance
    /\ saving' = [saving EXCEPT ![c].pc = "resolved", ![c].temp = NoTemp,
                                ![c].query = NoQuery]
    /\ UNCHANGED <<provider, messages, held, pc, op, rowRead, counts, local, staged,
                   err, result, trace, mwiArgs, persisted, mailboxes0, expected>>
    /\ UNCHANGED <<inst, temp, query, got, indexed>>
    /\ UNCHANGED <<writerVars, instanceVars, listingVars, factoryVars, queryVars, messageVars>>

\* provider.runQuery rejects (the statement fails and is rolled back): the
\* then of mailbox.save is skipped, nothing is put back
saveSharedReject(c) ==
    /\ saving[c].pc = "runQuery"
    /\ saving' = [saving EXCEPT ![c].pc = "rejected", ![c].temp = NoTemp,
                                ![c].query = NoQuery]
    /\ UNCHANGED sharedInstance
    /\ UNCHANGED <<provider, mailboxes, messages, held, pc, op, rowRead, counts,
                   local, staged, err, result, trace, mwiArgs, persisted,
                   mailboxes0, expected>>
    /\ UNCHANGED <<writerVars, instanceVars, entityVars, listingVars, factoryVars, queryVars, messageVars>>

(* ------------------------------------------------------------------ *)
(* message.save                                                       *)
(* ------------------------------------------------------------------ *)

InstanceFrame ==
    UNCHANGED <<writerVars, sharedVars, callVars, entityVars, listingVars, factoryVars, queryVars>>

\* the saves of one instance a caller makes in a row
MaxSaves == 2

\* JavaScript truthiness of the read attribute: the strings 'Y' and 'N' are
\* both truthy
JsTruthy(v) == v \notin {"false", "undefined"}

\* convertForStorage on the read attribute: message.read ? 'Y' : 'N'
convertReadForStorage(v) == IF JsTruthy(v) THEN "Y" ELSE "N"

\* provider.convertDateForStorage on a JavaScript value: sqlite calls
\* date.unix(), which a number does not have; postgres returns the value
DateForStorageThrows(date) == provider = "sqlite" /\ date.type # "moment"

DateForStorage(date) ==
    IF provider = "sqlite"
    THEN Number(convertDateForStorage(provider, date.value))
    ELSE date

\* the value the date column takes from a date in storage format: postgres
\* stores the instant of the moment
DateColumn(date) == date.value

\* getFields keeps the date when it is truthy: a moment always, a number
\* unless it is 0
DateKept(date) == date.type = "moment" \/ (date.type = "number" /\ date.value # 0)

\* the caller holds the instance of a stored message, as get, all or latest
\* hand it out: read a boolean, date a moment
messageLoad(id) ==
    /\ msgSave.pc # "runQuery"
    /\ id \in DOMAIN msgRows
    /\ tempObject' = [exists |-> TRUE, id |-> id,
                      read |-> IF convertFromStorage(msgRows[id].read)
                               THEN "true" ELSE "false",
                      date |-> Moment(convertDateFromStorage(provider, msgRows[id].date))]
    /\ msgSave' = NoMsgSave
    /\ UNCHANGED messageVars
    /\ InstanceFrame

\* instance.markAsRead(): if (!this.read) { this.read = true; }
instanceMarkAsRead ==
    /\ msgSave.pc # "runQuery"
    /\ tempObject.exists
    /\ ~JsTruthy(tempObject.read)
    /\ tempObject' = [tempObject EXCEPT !.read = "true"]
    /\ msgSave' = [msgSave EXCEPT !.writes = <<>>]
    /\ UNCHANGED messageVars
    /\ InstanceFrame

\* message.save(instance), up to provider.runQuery: convertForStorage
\* assigns read and date of the instance itself and returns it; sqlite's
\* date.unix() throws on a date that is no moment, after read was assigned
messageSave ==
    /\ msgSave.pc # "runQuery"
    /\ tempObject.exists
    /\ Len(msgSave.writes) < MaxSaves
    /\ IF DateForStorageThrows(tempObject.date)
       THEN /\ tempObject' = [tempObject EXCEPT
                                !.read = convertReadForStorage(tempObject.read)]
            /\ msgSave' = [msgSave EXCEPT
                             !.pc = "threw",
                             !.before = [read |-> tempObject.read,
                                         date |-> tempObject.date]]
       ELSE /\ tempObject' = [tempObject EXCEPT
                                !.read = convertReadForStorage(tempObject.read),
                                !.date = DateForStorage(tempObject.date)]
            /\ msgSave' = [msgSave EXCEPT
                             !.pc = "runQuery",
                             !.before = [read |-> tempObject.read,
                                         date |-> tempObject.date],
                             !.query = [read |-> convertReadForStorage(tempObject.read),
                                        date |-> DateForStorage(tempObject.date)]]
    /\ UNCHANGED messageVars
    /\ InstanceFrame

\* common.save's UPDATE ... WHERE id = getId() is committed and save resolves
messageSaveResolve ==
    /\ msgSave.pc = "runQuery"
    /\ LET id == tempObject.id
           date == IF DateKept(msgSave.query.date)
                   THEN DateColumn(msgSave.query.date) ELSE msgRows[id].date
       IN /\ msgRows' = [msgRows EXCEPT ![id].read = msgSave.query.read,
                                        ![id].date = date]
          /\ msgSave' = [msgSave EXCEPT
                           !.pc = "resolved",
                           !.writes = Append(@, [read |-> msgSave.query.read,
                                                 date |-> date])]
    /\ UNCHANGED <<tempObject, msg, latestOut>>
    /\ InstanceFrame

\* the UPDATE fails and save rejects
messageSaveReject ==
    /\ msgSave.pc = "runQuery"
    /\ msgSave' = [msgSave EXCEPT !.pc = "rejected"]
    /\ UNCHANGED tempObject
    /\ UNCHANGED messageVars
    /\ InstanceFrame

(* ------------------------------------------------------------------ *)
(* message.all while other callers save and remove messages           *)
(* ------------------------------------------------------------------ *)

\* the saves and removes other callers commit during one message.all
MaxWrites == 2

WriterFrame ==
    UNCHANGED <<instanceVars, sharedVars, callVars, entityVars, factoryVars,
                queryVars, messageVars>>

\* the places at which another caller's write lands: the oldest message, the
\* last one of the first batch, the newest message
WriterPlaces(rows) == {1, limit, Len(rows)} \cap DOMAIN rows

\* the sequence without its element at place i
Without(rows, i) == SubSeq(rows, 1, i - 1) \o SubSeq(rows, i + 1, Len(rows))

\* an id no stored row carries
FreshId == MaxMessages + written + 1

\* message.all(mailbox, folder) is called: the count query is issued
allStored ==
    /\ allOut.state = "idle"
    /\ allOut' = [allOut EXCEPT !.state = "count"]
    /\ kept' = {stored[i] : i \in DOMAIN stored}
    /\ UNCHANGED <<stored, written, folderRows, countResult, batchOut>>
    /\ WriterFrame

\* count resolves with the number of rows stored then; getPromises issues
\* one batch query per run
countStored ==
    /\ allOut.state = "count"
    /\ countResult' = Len(stored)
    /\ batchOut' = [k \in 1..calculateRuns(Len(stored)) |-> NoBatch]
    /\ allOut' = [allOut EXCEPT !.state = "batches"]
    /\ UNCHANGED <<writerVars, folderRows>>
    /\ WriterFrame

\* the batch query of run k resolves, in a transaction of its own, on the
\* rows stored then: ORDER BY date LIMIT limit OFFSET (k - 1) * limit
getMessageBatchStored(k) ==
    /\ allOut.state = "batches"
    /\ k \in DOMAIN batchOut
    /\ ~batchOut[k].done
    /\ batchOut' = [batchOut EXCEPT ![k] =
                      [done |-> TRUE, rows |-> Window(stored, (k - 1) * limit)]]
    /\ UNCHANGED <<writerVars, folderRows, countResult, allOut>>
    /\ WriterFrame

\* Q.all(promises) resolves once every batch did
allStoredResolve ==
    /\ allOut.state = "batches"
    /\ \A k \in DOMAIN batchOut : batchOut[k].done
    /\ allOut' = [state |-> "resolved", messages |-> Flatten(batchOut, Len(batchOut))]
    /\ UNCHANGED <<writerVars, folderRows, countResult, batchOut>>
    /\ WriterFrame

\* another caller's message.remove commits while message.all is running
otherRemove(i) ==
    /\ allOut.state \in {"count", "batches"}
    /\ written < MaxWrites
    /\ i \in WriterPlaces(stored)
    /\ stored' = Without(stored, i)
    /\ kept' = kept \ {stored[i]}
    /\ written' = written + 1
    /\ UNCHANGED listingVars
    /\ WriterFrame

\* another caller's message.save (a new message, dated now) or
\* message.changeFolder (a message moved into the folder, dated before the
\* others) commits while message.all is running
otherSave(newest) ==
    /\ allOut.state \in {"count", "batches"}
    /\ written < MaxWrites
    /\ stored' = IF newest THEN Append(stored, FreshId)
                 ELSE <<FreshId>> \o stored
    /\ written' = written + 1
    /\ UNCHANGED <<kept, listingVars>>
    /\ WriterFrame

(* ------------------------------------------------------------------ *)
(* Specifications                                                     *)
(* ------------------------------------------------------------------ *)

\* the steps of invocation p that succeed
StepOK(p) ==
    \/ newMessage(p) \/ readMessage(p) \/ deletedMessage(p)
    \/ markAsRead(p) \/ remove(p)
    \/ beginTransaction(p)
    \/ updateMwiSelect(p) \/ mwiResolve(p) \/ updateMwiUpdate(p)
    \/ markAsReadSelect(p) \/ markAsReadUpdate(p)
    \/ removeSelect(p) \/ removeDelete(p)
    \/ commitTransaction(p)
    \/ rollbackTransaction(p)

\* a storage step or the notification callback of invocation p fails
StepFail(p) ==
    \/ beginTransactionFail(p) \/ selectFail(p) \/ mwiReject(p)
    \/ writeFail(p) \/ commitFail(p) \/ rollbackFail(p)

NextOK == \E p \in Procs : StepOK(p)

NextFail == \E p \in Procs : StepFail(p)

Next == NextOK \/ NextFail

\* any step may fail
Spec == Init /\ [][Next]_vars

\* no storage step and no callback fails
SpecOK == Init /\ [][NextOK]_vars

\* the instance a caller holds of the stored mailbox m1: loaded with get,
\* then read, unread and email assigned by the caller
HeldInstance ==
    [exists |-> TRUE, inserted |-> FALSE, dirty |-> TRUE, id |-> "m1", number |-> "m1",
     email |-> "b@email.com",
     greeting |-> "away.wav", read |-> -3, unread |-> -3]

\* start of the counter operations mixed with mailbox.save: any stored counts,
\* the first caller holding an instance of mailbox m1
InitCounters ==
    /\ provider \in Providers
    /\ mailboxes \in InitMailboxes
    /\ messages \in InitMessages
    /\ InitCalls
    /\ FactoryIdle
    /\ WriterIdle
    /\ InstanceIdle
    /\ SharedIdle
    /\ ProviderIdle
    /\ FolderIdle
    /\ inst = [q \in Procs |-> IF q = 1 THEN HeldInstance ELSE NoInstance]
    /\ temp = [p \in Procs |-> NoTemp]
    /\ query = [p \in Procs |-> NoQuery]
    /\ got = [p \in Procs |-> NoInstance]
    /\ indexed = FALSE
    /\ idSeq = 0
    /\ ListingIdle

\* the steps of a counter operation or of a mailbox.save, failing ones included
StepCounters(p) ==
    \/ newMessage(p) \/ readMessage(p) \/ deletedMessage(p)
    \/ beginTransaction(p) \/ beginTransactionFail(p)
    \/ updateMwiSelect(p) \/ selectFail(p)
    \/ mwiResolve(p) \/ mwiReject(p)
    \/ updateMwiUpdate(p) \/ writeFail(p)
    \/ commitTransaction(p) \/ commitFail(p)
    \/ rollbackTransaction(p) \/ rollbackFail(p)
    \/ mailboxSave(p) \/ runQueryWrite(p) \/ runQueryFail(p)

NextCounters == \E p \in Procs : StepCounters(p)

\* the counter operations interleaved with mailbox.save of persisted instances
SpecCounters == InitCounters /\ [][NextCounters]_vars

\* the callers of the generic save / get / remove
Callers == {1}

\* the fields a caller passes to mailbox.create
CreateFields ==
    [number : {"m2"}, email : {"a@email.com"}, greeting : {"away.wav"},
     read : {0, 2}, unread : {UNDEFINED}]

\* the values a caller assigns to an attribute of its instance
Assignable(c) ==
    CASE c = "email" -> {"b@email.com"}
      [] c = "greeting" -> {NullString}
      [] c = "read" -> {2}

\* start of save / get / remove: the fixture's mailbox is stored; like the
\* tests' populateDb, nothing created the unique indexes
InitEntity ==
    /\ provider = "sqlite"
    /\ mailboxes = [m \in {"m1"} |-> [Fixture1234 EXCEPT !.number = m]]
    /\ messages \in InitMessages
    /\ InitCalls
    /\ FactoryIdle
    /\ WriterIdle
    /\ InstanceIdle
    /\ SharedIdle
    /\ ProviderIdle
    /\ FolderIdle
    /\ inst = [p \in Procs |-> NoInstance]
    /\ temp = [p \in Procs |-> NoTemp]
    /\ query = [p \in Procs |-> NoQuery]
    /\ got = [p \in Procs |-> NoInstance]
    /\ indexed = FALSE
    /\ idSeq = 0
    /\ ListingIdle

\* what a caller of save / get / remove does, and how its statement settles
StepEntity(p) ==
    \/ \E f \in CreateFields : create(p, f)
    \/ load(p)
    \/ \E c \in {"email", "greeting", "read"} :
          \E v \in Assignable(c) : modify(p, c, v)
    \/ mailboxSave(p)
    \/ \E n \in Mailboxes : mailboxGet(p, n)
    \/ mailboxRemove(p)
    \/ runQueryWrite(p) \/ runQuerySelect(p) \/ runQueryFail(p)

NextEntity == \E p \in Callers : StepEntity(p)

\* create, save, get and remove of mailbox instances by one caller
SpecEntity == InitEntity /\ [][NextEntity]_vars

\* the numbers of stored messages: none, one, and the numbers next to a
\* multiple of the batch size
StoredCounts ==
    {n \in 0..MaxMessages : n <= 1 \/ n % limit \in {limit - 1, 0, 1}}

\* the dates of n messages in the order they were saved, by second: every
\* message a second after the one before, but the one after place t (if any)
\* in the same second as the one at t
DatesOf(n, t) == [i \in 1..n |-> IF i > 1 /\ i - 1 = t THEN i - 1 ELSE i]

\* start of message.all: the messages of one (mailbox, folder) pair; two of
\* them may carry the same date when the unique index was not created
InitListing ==
    /\ provider \in Providers
    /\ mailboxes = [m \in Mailboxes |-> [Fixture1234 EXCEPT !.number = m]]
    /\ messages \in InitMessages
    /\ InitCalls
    /\ FactoryIdle
    /\ WriterIdle
    /\ InstanceIdle
    /\ SharedIdle
    /\ ProviderIdle
    /\ FolderIdle
    /\ inst = [p \in Procs |-> NoInstance]
    /\ temp = [p \in Procs |-> NoTemp]
    /\ query = [p \in Procs |-> NoQuery]
    /\ got = [p \in Procs |-> NoInstance]
    /\ indexed \in BOOLEAN
    /\ idSeq = 0
    /\ \E n \in StoredCounts :
          \E t \in {0} \cup (IF indexed THEN {}
                              ELSE {i \in 1..(n - 1) : i = 1 \/ i % limit = 0}) :
              folderRows = DatesOf(n, t)
    /\ countResult = NotCounted
    /\ batchOut = <<>>
    /\ allOut = NoListing

NextListing ==
    \/ all
    \/ count
    \/ listingFail
    \/ \E k \in 1..calculateRuns(MaxMessages) : getMessageBatch(k)
    \/ allResolve

\* message.all with no concurrent writer
SpecListing == InitListing /\ [][NextListing]_vars

\* the steps of a markAsRead or remove invocation, failing ones included
StepMsg(p) ==
    \/ markAsRead(p) \/ remove(p)
    \/ beginTransaction(p) \/ beginTransactionFail(p)
    \/ markAsReadSelect(p) \/ markAsReadUpdate(p)
    \/ removeSelect(p) \/ removeDelete(p)
    \/ selectFail(p) \/ writeFail(p)
    \/ commitTransaction(p) \/ commitFail(p)
    \/ rollbackTransaction(p) \/ rollbackFail(p)

NextMsg == \E p \in Procs : StepMsg(p)

\* the message transactional operations alone, on a read or an unread message
SpecMsg == InitMsg /\ [][NextMsg]_vars

\* calls of the repository factory with any configuration
NextFactory ==
    \E connectionString \in ConnectionStrings, providerName \in Providers :
        factory(connectionString, providerName)

SpecFactory == Init /\ [][NextFactory]_vars

\* callers of the provider's runQuery; the engine may refuse a statement
\* but the connection works
NextIndexes ==
    \E p \in Procs :
        \/ createIndex(p)
        \/ connect(p)
        \/ runQueryBegin(p)
        \/ runQueryExec(p)
        \/ runQueryExecExists(p)
        \/ runQueryCommit(p)
        \/ runQueryRollback(p)

SpecIndexes == Init /\ [][NextIndexes]_vars

\* callers of the provider's runQuery and beginTransaction; any step may fail
NextProvider ==
    \E p \in Procs :
        \/ \E stmt \in Statements : providerRunQuery(p, stmt)
        \/ providerBeginTransaction(p)
        \/ connect(p) \/ connectFail(p)
        \/ runQueryBegin(p) \/ runQueryBeginFail(p)
        \/ runQueryExec(p) \/ runQueryExecExists(p) \/ runQueryExecFail(p)
        \/ runQueryCommit(p) \/ runQueryCommitFail(p)
        \/ runQueryRollback(p) \/ runQueryRollbackFail(p)
        \/ transactionBegin(p) \/ transactionBeginFail(p)
        \/ \E ok \in BOOLEAN : commitTransactionCall(p, ok)
        \/ \E ok \in BOOLEAN : rollbackTransactionCall(p, ok)

SpecProvider == Init /\ [][NextProvider]_vars

\* the stored messages at the start of the message calls: three rows, two
\* mailboxes, two folders, saved around the turn of a minute
InitFolder ==
    /\ provider \in Providers
    /\ mailboxes = [m \in Mailboxes |-> [Fixture1234 EXCEPT !.number = m]]
    /\ messages \in InitMessages
    /\ InitCalls
    /\ EntityIdle
    /\ ListingIdle
    /\ FactoryIdle
    /\ WriterIdle
    /\ InstanceIdle
    /\ SharedIdle
    /\ ProviderIdle
    /\ msg = NoMessage
    /\ latestOut = NoLatest
    /\ \E t1, t2 \in Instants, folder \in Folders :
          msgRows = << StoredMessage(1, "m1", "INBOX", t1, TRUE, "John Smith"),
                       StoredMessage(2, "m1", folder, t2, FALSE, "John Smith"),
                       StoredMessage(3, "m2", "INBOX", 60000, FALSE, NullString) >>

\* a caller loads messages, asks for the latest ones and moves the message
\* it holds to another folder
NextFolder ==
    \/ \E id \in 1..3 : messageGet(id)
    \/ \E mailbox \in Mailboxes, folder \in Folders, date \in LatestDates :
          \/ latest(mailbox, folder, date)
          \/ latestFail(mailbox, folder, date)
    \/ \E folder \in Folders : changeFolder(folder)

SpecFolder == InitFolder /\ [][NextFolder]_vars

\* the counter operations as the second mailbox module of mailbox.js defines
\* them, with the message operations; any step may fail
NextMailboxModule ==
    \E p \in Procs :
        \/ StepOK(p)
        \/ beginTransactionFail(p) \/ selectFail(p) \/ mwiReject(p)
        \/ writeFail(p) \/ commitFail(p)
        \/ messageRollbackFail(p) \/ rollbackThenFail(p)

SpecMailboxModule == Init /\ [][NextMailboxModule]_vars

\* the steps of invocation p that follow its invocation: callbacks of the
\* event loop and answers of the database
Progress(p) ==
    \/ beginTransaction(p)
    \/ updateMwiSelect(p) \/ mwiResolve(p) \/ updateMwiUpdate(p)
    \/ markAsReadSelect(p) \/ markAsReadUpdate(p)
    \/ removeSelect(p) \/ removeDelete(p)
    \/ commitTransaction(p)
    \/ rollbackTransaction(p)

\* no step fails, every notification callback completes, and a step that
\* stays possible is taken: the event loop runs every callback that is ready
\* and the database answers every statement that is not waiting for a lock
SpecLive == Init /\ [][NextOK]_vars /\ \A p \in Procs : WF_vars(Progress(p))

\* the counter operations, failing steps included, while the first caller
\* removes the mailbox it holds
StepMissing(p) ==
    \/ newMessage(p) \/ readMessage(p) \/ deletedMessage(p)
    \/ beginTransaction(p) \/ beginTransactionFail(p)
    \/ updateMwiSelect(p) \/ selectFail(p)
    \/ mwiResolve(p) \/ mwiReject(p)
    \/ updateMwiUpdate(p) \/ writeFail(p)
    \/ commitTransaction(p) \/ commitFail(p)
    \/ rollbackTransaction(p) \/ rollbackFail(p)
    \/ mailboxRemove(p) \/ runQueryWrite(p) \/ runQueryFail(p)

NextMissing == \E p \in Procs : StepMissing(p)

SpecMissing == InitCounters /\ [][NextMissing]_vars

\* the instances callers share: mailbox m1 as get returned it, with counts
\* the caller may have assigned, or an instance create returned, not saved yet
SharedInstances ==
    { [exists |-> TRUE, inserted |-> FALSE, dirty |-> TRUE, id |-> id,
       number |-> "m1", email |-> e, greeting |-> "away.wav",
       read |-> r, unread |-> u] :
         id \in {"m1", NoId}, e \in {"a@email.com", "b@email.com"},
         r \in {NULL, 0, 2}, u \in {0, 1} }

\* start of the saves of a shared instance
InitShared ==
    /\ provider \in Providers
    /\ mailboxes \in InitMailboxes
    /\ messages \in InitMessages
    /\ InitCalls
    /\ FactoryIdle
    /\ WriterIdle
    /\ InstanceIdle
    /\ sharedInstance \in SharedInstances
    /\ saving = [c \in SaveCalls |-> NoSave]
    /\ ProviderIdle
    /\ FolderIdle
    /\ EntityIdle
    /\ ListingIdle

NextShared ==
    \E c \in SaveCalls :
        \/ saveShared(c)
        \/ saveSharedResolve(c)
        \/ saveSharedReject(c)

\* two mailbox.save calls on one instance, each resolving or rejecting
SpecShared == InitShared /\ [][NextShared]_vars

\* a caller loads a stored message, may mark the instance as read, and saves
\* it, more than once
NextMessageSave ==
    \/ \E id \in 1..3 : messageLoad(id)
    \/ instanceMarkAsRead
    \/ messageSave
    \/ messageSaveResolve
    \/ messageSaveReject

SpecMessageSave == InitFolder /\ [][NextMessageSave]_vars

\* start of message.all with other callers writing: the messages of the
\* pair, numbered by date, no two of one date
InitWriters ==
    /\ provider \in Providers
    /\ mailboxes = [m \in Mailboxes |-> [Fixture1234 EXCEPT !.number = m]]
    /\ messages \in InitMessages
    /\ InitCalls
    /\ FactoryIdle
    /\ InstanceIdle
    /\ SharedIdle
    /\ ProviderIdle
    /\ FolderIdle
    /\ EntityIdle
    /\ ListingIdle
    /\ \E n \in StoredCounts : stored = [i \in 1..n |-> i]
    /\ kept = {}
    /\ written = 0

NextWriters ==
    \/ allStored
    \/ countStored
    \/ \E k \in 1..calculateRuns(MaxMessages + MaxWrites) : getMessageBatchStored(k)
    \/ allStoredResolve
    \/ \E i \in 1..(MaxMessages + MaxWrites) : otherRemove(i)
    \/ \E newest \in BOOLEAN : otherSave(newest)

\* message.all while other callers save and remove messages of the pair
SpecWriters == InitWriters /\ [][NextWriters]_vars

(* ------------------------------------------------------------------ *)
(* Vocabulary of the properties                                       *)
(* ------------------------------------------------------------------ *)

Settled(p) == pc[p] \in {"resolved", "rejected"}
ResolvedOp(p, name) == pc[p] = "resolved" /\ op[p].name = name

\* position of the first s in p's trace (0 when p never issued s)
Pos(p, s) ==
    IF Issued(p, s)
    THEN CHOOSE i \in DOMAIN trace[p] :
            /\ trace[p][i].stmt = s
            /\ \A j \in DOMAIN trace[p] : trace[p][j].stmt = s => i <= j
    ELSE 0

CountsOf(row) == [read |-> row.read, unread |-> row.unread]

\* a stored count with null counting as 0
Num(v) == IF v = NULL THEN 0 ELSE v

Max(a, b) == IF a >= b THEN a ELSE b

\* p's locking read returned the mailbox row and p has attempted neither
\* COMMIT nor ROLLBACK yet
InCounterTx(p) ==
    /\ IsCounter(p)
    /\ rowRead[p].present
    /\ pc[p] \in {"mwi", "write", "commit", "rollback"}
    /\ ~Issued(p, "COMMIT")
    /\ ~Issued(p, "ROLLBACK")

(* ------------------------------------------------------------------ *)
(* C1                                                                 *)
(* ------------------------------------------------------------------ *)

\* C1: whatever the interleaving of newMessage, readMessage and deletedMessage
\* invocations, the persisted (read, unread) of every mailbox equals the
\* count rules of the invocations that committed, applied one after another
\* in commit order to the initial counts: no committed update is lost.
C1_NoLostUpdate ==
    \A m \in DOMAIN mailboxes : CountsOf(mailboxes[m]) = expected[m]

\* two counter operations on one mailbox both committed, the second one
\* having read what the first one committed
C1_Witness ==
    \E p, q \in Procs :
        /\ p # q
        /\ IsCounter(p) /\ IsCounter(q)
        /\ op[p].target = op[q].target
        /\ pc[p] = "resolved" /\ pc[q] = "resolved"
        /\ rowRead[q] = persisted[p]
        /\ persisted[q] # persisted[p]

(* ------------------------------------------------------------------ *)
(* C2                                                                 *)
(* ------------------------------------------------------------------ *)

\* C2: two counter transactions on the same mailbox row are never both
\* between their locking read and their commit / rollback, and the row a
\* transaction read is still the committed row while it is there: its read
\* came after the last commit on that row and returned what was committed.
C2_MutualExclusion ==
    /\ \A p, q \in Procs :
          (p # q /\ op[p].target = op[q].target)
             => ~(InCounterTx(p) /\ InCounterTx(q))
    /\ \A p \in Procs :
          InCounterTx(p) => rowRead[p] = StoredRow(p, mailboxes, messages)

\* q is between its read and its commit, having read the counts p committed
C2_Witness ==
    \E p, q \in Procs :
        /\ p # q
        /\ IsCounter(p) /\ op[p].target = op[q].target
        /\ pc[p] = "resolved"
        /\ InCounterTx(q)
        /\ rowRead[q] = persisted[p]
        /\ CountsOf(rowRead[q]) # CountsOf(mailboxes0[op[q].target])

(* ------------------------------------------------------------------ *)
(* C3                                                                 *)
(* ------------------------------------------------------------------ *)

\* C3: a counter operation whose locking read returned the row calls the
\* notification callback exactly once, after the read; the UPDATE is issued
\* only after the callback's promise has resolved, and the COMMIT after the
\* UPDATE.  An operation that has not read the row has not called it.
C3_CallbackOrder ==
    \A p \in Procs :
        IsCounter(p) =>
            /\ Count(p, "mwi") = (IF rowRead[p].present THEN 1 ELSE 0)
            /\ rowRead[p].present => Pos(p, "SELECT") < Pos(p, "mwi")
            /\ Issued(p, "UPDATE") =>
                  /\ Stmt("mwi.settled", TRUE) \in {trace[p][i] : i \in DOMAIN trace[p]}
                  /\ Pos(p, "mwi") < Pos(p, "mwi.settled")
                  /\ Pos(p, "mwi.settled") < Pos(p, "UPDATE")
            /\ Issued(p, "COMMIT") =>
                  /\ Issued(p, "UPDATE")
                  /\ Pos(p, "UPDATE") < Pos(p, "COMMIT")

\* a counter operation resolved: read, callback, write and commit all happened
C3_Witness ==
    \E p \in Procs :
        /\ IsCounter(p) /\ pc[p] = "resolved"
        /\ Count(p, "mwi") = 1
        /\ Issued(p, "UPDATE") /\ Issued(p, "COMMIT")

(* ------------------------------------------------------------------ *)
(* C4                                                                 *)
(* ------------------------------------------------------------------ *)

\* C4: when a counter operation resolves, the counts it returns, the counts
\* it passed to the notification callback and the (read, unread) its commit
\* persisted are the same pair.
C4_OnePair ==
    \A p \in Procs :
        (IsCounter(p) /\ pc[p] = "resolved") =>
            /\ result[p].counts = mwiArgs[p]
            /\ persisted[p].present
            /\ CountsOf(persisted[p]) = result[p].counts

\* a counter operation resolved with two different counts
C4_Witness ==
    \E p \in Procs :
        /\ IsCounter(p) /\ pc[p] = "resolved"
        /\ result[p].counts.read # result[p].counts.unread
        /\ CountsOf(rowRead[p]) # result[p].counts

(* ------------------------------------------------------------------ *)
(* C5                                                                 *)
(* ------------------------------------------------------------------ *)

CallbackFailed(p) ==
    \E i \in DOMAIN trace[p] : trace[p][i] = Stmt("mwi.settled", FALSE)

\* C5: once the notification callback has failed, the counter operation
\* issues no UPDATE and no COMMIT; it goes to its rollback and, when it
\* settles, has attempted the ROLLBACK and is rejected with new Error(err) of
\* the callback's failure.
C5_CallbackFailure ==
    \A p \in Procs :
        CallbackFailed(p) =>
            /\ ~Issued(p, "UPDATE")
            /\ ~Issued(p, "COMMIT")
            /\ pc[p] \in {"rollback", "rejected"}
            /\ pc[p] = "rejected" =>
                  /\ Issued(p, "ROLLBACK")
                  /\ result[p].state = "rejected"
                  /\ result[p].err = NewError(Failure("mwi"))

\* a counter operation settled after its callback failed
C5_Witness ==
    \E p \in Procs :
        CallbackFailed(p) /\ pc[p] = "rejected" /\ Issued(p, "ROLLBACK")

(* ------------------------------------------------------------------ *)
(* C6                                                                 *)
(* ------------------------------------------------------------------ *)

\* C6: no step of a counter or message transactional operation other than
\* the successful commit that resolves it changes a persisted row; an
\* operation that rejects never takes that step, so it leaves every row as
\* it found it, also when its write or its commit fails after the callback
\* succeeded.
C6_RejectLeavesRows ==
    [][\A p \in Procs :
          (pc'[p] # pc[p] /\ pc'[p] # "resolved")
             => (mailboxes' = mailboxes /\ messages' = messages)]_vars

\* an operation was rejected after its write had been issued (its commit
\* failed), and the stored row is the one it read
C6_Witness ==
    \E p \in Procs :
        /\ pc[p] = "rejected"
        /\ rowRead[p].present
        /\ Issued(p, "UPDATE") \/ Issued(p, "DELETE")
        /\ err[p].origin = "commit"
        /\ StoredRow(p, mailboxes, messages) = rowRead[p]

(* ------------------------------------------------------------------ *)
(* C7                                                                 *)
(* ------------------------------------------------------------------ *)

\* p is a newMessage and q a readMessage on mailbox m, which started at
\* read = 1, unread = 1, and no other invocation works on m
C7_Scenario(p, q, m) ==
    /\ p # q
    /\ m \in DOMAIN mailboxes0
    /\ CountsOf(mailboxes0[m]) = [read |-> 1, unread |-> 1]
    /\ op[p].name = "newMessage" /\ op[p].target = m
    /\ op[q].name = "readMessage" /\ op[q].target = m
    /\ \A r \in Procs \ {p, q} : op[r].target # m

\* C7: with no failing step, a newMessage and a readMessage running
\* concurrently on a mailbox at read = 1, unread = 1 never get stuck (while
\* one of them is unsettled some running invocation can take a step), both
\* resolve, and once both have settled the persisted counts are read = 2,
\* unread = 1, whichever of the two was started or committed first.
C7_ConcurrentNewAndRead ==
    \A p, q \in Procs : \A m \in Mailboxes :
        C7_Scenario(p, q, m) =>
            IF Settled(p) /\ Settled(q)
            THEN /\ pc[p] = "resolved" /\ pc[q] = "resolved"
                 /\ CountsOf(mailboxes[m]) = [read |-> 2, unread |-> 1]
            ELSE \E r \in Procs :
                    /\ pc[r] \notin {"idle", "resolved", "rejected"}
                    /\ ENABLED StepOK(r)

\* both resolved, the readMessage having committed first
C7_Witness ==
    \E p, q \in Procs : \E m \in Mailboxes :
        /\ C7_Scenario(p, q, m)
        /\ pc[p] = "resolved" /\ pc[q] = "resolved"
        /\ rowRead[p] = persisted[q]
        /\ CountsOf(persisted[q]) = [read |-> 2, unread |-> 0]

(* ------------------------------------------------------------------ *)
(* C8                                                                 *)
(* ------------------------------------------------------------------ *)

\* C8: a newMessage that read the stored counts (r, u), null counting as 0,
\* returns and persists (r, u + 1).
C8_NewMessage ==
    \A p \in Procs :
        ResolvedOp(p, "newMessage") =>
            LET r == Num(rowRead[p].read)
                u == Num(rowRead[p].unread)
            IN /\ result[p].counts = [read |-> r, unread |-> u + 1]
               /\ CountsOf(persisted[p]) = [read |-> r, unread |-> u + 1]

\* a mailbox with read = null, unread = null ended at read = 0, unread = 1
C8_Witness ==
    \E p \in Procs :
        /\ ResolvedOp(p, "newMessage")
        /\ CountsOf(rowRead[p]) = [read |-> NULL, unread |-> NULL]
        /\ CountsOf(persisted[p]) = [read |-> 0, unread |-> 1]

(* ------------------------------------------------------------------ *)
(* C9                                                                 *)
(* ------------------------------------------------------------------ *)

\* C9: a readMessage that read the stored counts (r, u), null counting as 0,
\* returns and persists (r + 1, max(u - 1, 0)).
C9_ReadMessage ==
    \A p \in Procs :
        ResolvedOp(p, "readMessage") =>
            LET r == Num(rowRead[p].read)
                u == Num(rowRead[p].unread)
                new == [read |-> r + 1, unread |-> Max(u - 1, 0)]
            IN /\ result[p].counts = new
               /\ CountsOf(persisted[p]) = new

\* a readMessage on a mailbox with no unread message left unread at 0
C9_Witness ==
    \E p \in Procs :
        /\ ResolvedOp(p, "readMessage")
        /\ rowRead[p].unread \in {NULL, 0}
        /\ persisted[p].unread = 0
        /\ persisted[p].read = Num(rowRead[p].read) + 1

(* ------------------------------------------------------------------ *)
(* C10                                                                *)
(* ------------------------------------------------------------------ *)

\* C10: a deletedMessage(messageRead) that read the stored counts (r, u),
\* null counting as 0, returns and persists (max(r - 1, 0), u) when
\* messageRead is true and (r, max(u - 1, 0)) when it is false; neither
\* count is ever below 0.
C10_DeletedMessage ==
    \A p \in Procs :
        ResolvedOp(p, "deletedMessage") =>
            LET r == Num(rowRead[p].read)
                u == Num(rowRead[p].unread)
                new == IF op[p].messageRead
                       THEN [read |-> Max(r - 1, 0), unread |-> u]
                       ELSE [read |-> r, unread |-> Max(u - 1, 0)]
            IN /\ result[p].counts = new
               /\ CountsOf(persisted[p]) = new
               /\ new.read >= 0 /\ new.unread >= 0

\* a read message was deleted from a mailbox whose read count was already 0
C10_Witness ==
    \E p \in Procs :
        /\ ResolvedOp(p, "deletedMessage")
        /\ op[p].messageRead
        /\ rowRead[p].read = 0
        /\ persisted[p].read = 0

(* ------------------------------------------------------------------ *)
(* C13                                                                *)
(* ------------------------------------------------------------------ *)

\* C13: a markAsRead that resolves returns true exactly when the stored
\* message it read was unread, issues its UPDATE exactly then, and leaves the
\* stored read flag set; so of two calls in sequence on an unread message
\* the first returns true and the second, which reads what the first
\* committed, returns false without a write, and a call on an already-read
\* message returns false without a write.
C13_MarkAsReadTwice ==
    /\ \A p \in Procs :
          (ResolvedOp(p, "markAsRead") /\ rowRead[p].present) =>
              LET wasUnread == ~convertFromStorage(rowRead[p].flag)
              IN /\ result[p].updated = wasUnread
                 /\ Issued(p, "UPDATE") = wasUnread
                 /\ persisted[p].present
                 /\ convertFromStorage(persisted[p].flag)
                 /\ op[p].target \in DOMAIN messages =>
                       convertFromStorage(messages[op[p].target].read)
    /\ \A p, q \in Procs :
          ( /\ p # q
            /\ ResolvedOp(p, "markAsRead") /\ ResolvedOp(q, "markAsRead")
            /\ op[p].target = op[q].target
            /\ result[p].updated
            /\ rowRead[q].present /\ rowRead[q] = persisted[p] )
          => (~result[q].updated /\ ~Issued(q, "UPDATE"))

\* two calls in sequence: the first returned true, the second read what the
\* first committed and returned false without a write
C13_Witness ==
    \E p, q \in Procs :
        /\ p # q
        /\ ResolvedOp(p, "markAsRead") /\ ResolvedOp(q, "markAsRead")
        /\ op[p].target = op[q].target
        /\ result[p].updated /\ Issued(p, "UPDATE")
        /\ rowRead[q] = persisted[p]
        /\ ~result[q].updated /\ ~Issued(q, "UPDATE")
        /\ convertFromStorage(messages[op[p].target].read)

(* ------------------------------------------------------------------ *)
(* C14                                                                *)
(* ------------------------------------------------------------------ *)

\* p and q are markAsRead calls on the message id, which was stored unread,
\* and no other invocation works on it
C14_Scenario(p, q, id) ==
    /\ p # q
    /\ op[p].name = "markAsRead" /\ op[p].target = id
    /\ op[q].name = "markAsRead" /\ op[q].target = id
    /\ \A r \in Procs \ {p, q} : op[r].target # id

\* C14: with no failing step, two concurrent markAsRead calls on the same
\* unread message never get stuck, both resolve, exactly one of them
\* returns true and the other false, and the stored message is read
\* afterwards.
C14_ConcurrentMarkAsRead ==
    \A p, q \in Procs : \A id \in MessageIds :
        C14_Scenario(p, q, id) =>
            IF Settled(p) /\ Settled(q)
            THEN /\ pc[p] = "resolved" /\ pc[q] = "resolved"
                 /\ result[p].updated # result[q].updated
                 /\ id \in DOMAIN messages
                 /\ convertFromStorage(messages[id].read)
            ELSE \E r \in Procs :
                    /\ pc[r] \notin {"idle", "resolved", "rejected"}
                    /\ ENABLED StepOK(r)

\* both resolved, and the one that began its transaction second is the one
\* that returned true
C14_Witness ==
    \E p, q \in Procs : \E id \in MessageIds :
        /\ C14_Scenario(p, q, id)
        /\ pc[p] = "resolved" /\ pc[q] = "resolved"
        /\ result[q].updated /\ ~result[p].updated
        /\ rowRead[p] = persisted[q]

(* ------------------------------------------------------------------ *)
(* C15                                                                *)
(* ------------------------------------------------------------------ *)

\* p and q are remove calls on the stored message id, and no other
\* invocation works on it
C15_Scenario(p, q, id) ==
    /\ p # q
    /\ op[p].name = "remove" /\ op[p].target = id
    /\ op[q].name = "remove" /\ op[q].target = id
    /\ \A r \in Procs \ {p, q} : op[r].target # id

\* C15: with no failing step, two concurrent remove calls on the same
\* stored message never get stuck, both resolve, exactly one of them
\* returns the row as it was before the deletion and the other returns no
\* row, and the message row is gone afterwards.
C15_ConcurrentRemove ==
    \A p, q \in Procs : \A id \in MessageIds :
        C15_Scenario(p, q, id) =>
            IF Settled(p) /\ Settled(q)
            THEN /\ pc[p] = "resolved" /\ pc[q] = "resolved"
                 /\ result[p].snapshot.present # result[q].snapshot.present
                 /\ \A r \in {p, q} :
                       result[r].snapshot.present =>
                          result[r].snapshot =
                             MessageRow([read |-> convertForStorage(FALSE)])
                 /\ id \notin DOMAIN messages
            ELSE \E r \in Procs :
                    /\ pc[r] \notin {"idle", "resolved", "rejected"}
                    /\ ENABLED StepOK(r)

\* both resolved: q got the row, p read after q's commit and got none
C15_Witness ==
    \E p, q \in Procs : \E id \in MessageIds :
        /\ C15_Scenario(p, q, id)
        /\ pc[p] = "resolved" /\ pc[q] = "resolved"
        /\ result[q].snapshot.present
        /\ ~result[p].snapshot.present
        /\ ~rowRead[p].present
        /\ Issued(p, "DELETE")

(* ------------------------------------------------------------------ *)
(* C11                                                                *)
(* ------------------------------------------------------------------ *)

\* C11: starting from stored read and unread that are null or non-negative,
\* in every state reached by any interleaving of newMessage, readMessage,
\* deletedMessage and mailbox.save calls, failing steps included, the stored
\* read and unread of every mailbox are null or non-negative, and a count is
\* null only when it was null at the start.
C11_CountsNonNegative ==
    \A m \in DOMAIN mailboxes : \A c \in NumColumns :
        /\ mailboxes[m][c] = NULL \/ mailboxes[m][c] >= 0
        /\ mailboxes[m][c] = NULL => mailboxes0[m][c] = NULL

\* a mailbox.save of an instance carrying negative counts committed its
\* UPDATE, and a counter operation on the same mailbox committed as well
C11_Witness ==
    \E p, q \in Procs :
        /\ ResolvedOp(p, "mailbox.save")
        /\ query[p].kind = "update"
        /\ inst[p].read < 0 /\ inst[p].unread < 0
        /\ IsCounter(q) /\ pc[q] = "resolved"
        /\ op[q].target = inst[p].id
        /\ mailboxes[inst[p].id].read # mailboxes0[inst[p].id].read

(* ------------------------------------------------------------------ *)
(* C16                                                                *)
(* ------------------------------------------------------------------ *)

\* the stored rows with the mailbox number n
Matching(n) == {id \in DOMAIN mailboxes : mailboxes[id].number = n}

\* a get whose select is in flight can resolve, and a get that resolved while
\* no row matches resolved to null
C16_GetNull ==
    \A p \in Callers :
        /\ (pc[p] = "runQuery" /\ query[p].kind = "select")
              => ENABLED runQuerySelect(p)
        /\ (pc[p] = "resolved" /\ op[p].name = "mailbox.get"
               /\ Matching(query[p].number) = {})
              => (got[p] = NoInstance /\ ~query[p].matched)

\* a remove whose row is gone can resolve, and when it resolves the store is
\* as it was
C16_RemoveGone ==
    \A p \in Callers :
        (pc[p] = "runQuery" /\ query[p].kind = "delete"
           /\ query[p].id \notin DOMAIN mailboxes)
        => /\ ENABLED runQueryWrite(p)
           /\ pc'[p] = "resolved" => mailboxes' = mailboxes

\* C16: get resolves to null when no row matches, and remove of an instance
\* whose row is already gone resolves and leaves the store unchanged.
C16_MissingRowNoError == []C16_GetNull /\ [][C16_RemoveGone]_vars

\* an instance was saved (row r1), looked up, removed, and removed again: the
\* second remove resolved without matching a row
C16_Witness ==
    \E p \in Callers :
        /\ pc[p] = "resolved"
        /\ op[p].name = "mailbox.remove"
        /\ ~query[p].matched
        /\ inst[p].id = NewIdSeq[1]
        /\ inst[p].id \notin DOMAIN mailboxes
        /\ Matching(inst[p].number) = {}

(* ------------------------------------------------------------------ *)
(* C17                                                                *)
(* ------------------------------------------------------------------ *)

\* the attribute value g read back equals the value e the caller gave: an
\* attribute the caller left undefined or null reads back as null
SameAttribute(c, e, g) ==
    IF IsUndefined(c, e) \/ IsNull(c, e) THEN IsNull(c, g) ELSE e = g

AttributeEqual(e, g) == \A c \in Columns : SameAttribute(c, e[c], g[c])

\* C17: when a newly created instance E was saved, was not assigned to
\* since, and its row is the only one with its number, a get of that number
\* that resolved returned an instance with an identifier whose attributes
\* equal those of E.
C17_RoundTrip ==
    \A p \in Callers :
        ( /\ inst[p].inserted /\ ~inst[p].dirty
          /\ pc[p] = "resolved" /\ op[p].name = "mailbox.get"
          /\ query[p].number = inst[p].number
          /\ Cardinality(Matching(inst[p].number)) = 1 )
        => /\ got[p].exists
           /\ got[p].id # NoId
           /\ AttributeEqual(inst[p], got[p])

(* ------------------------------------------------------------------ *)
(* C19                                                                *)
(* ------------------------------------------------------------------ *)

\* C19: the UPDATE that save hands to runQuery for an instance with an
\* identifier holds exactly the attributes of the instance that are not
\* undefined, each with the instance's value (null included).
C19_UpdateFields ==
    \A p \in Callers :
        (pc[p] = "runQuery" /\ query[p].kind = "update")
        => /\ DOMAIN query[p].fields =
                 {c \in Columns : ~IsUndefined(c, inst[p][c])}
           /\ \A c \in DOMAIN query[p].fields : query[p].fields[c] = inst[p][c]

(* ------------------------------------------------------------------ *)
(* C12                                                                *)
(* ------------------------------------------------------------------ *)

\* when the UPDATE of a mailbox.save resolves, the stored read and unread of
\* the row are what they were
C12_CountsKept ==
    \A p \in Callers :
        (pc[p] = "runQuery" /\ query[p].kind = "update" /\ pc'[p] = "resolved"
           /\ query[p].id \in DOMAIN mailboxes)
        => \A c \in NumColumns :
              mailboxes'[query[p].id][c] = mailboxes[query[p].id][c]

\* when the UPDATE of a mailbox.save resolves, every other attribute that is
\* set on the instance is stored in the row
C12_OthersPersisted ==
    \A p \in Callers :
        (pc[p] = "runQuery" /\ query[p].kind = "update" /\ pc'[p] = "resolved"
           /\ query[p].id \in DOMAIN mailboxes)
        => \A c \in Columns \ NumColumns :
              ~IsUndefined(c, inst[p][c]) =>
                  mailboxes'[query[p].id][c] = inst[p][c]

\* C12: mailbox.save of an instance with an identifier leaves the stored
\* read and unread as they were, whatever the instance carries, and stores
\* the other attributes set on the instance.
C12_SaveFrame == [][C12_CountsKept /\ C12_OthersPersisted]_vars

(* ------------------------------------------------------------------ *)
(* C20                                                                *)
(* ------------------------------------------------------------------ *)

\* C20: an instance whose save resolved with an insert has an identifier,
\* and no later save of it hands an INSERT to runQuery.
C20_IdAfterFirstSave ==
    \A p \in Callers :
        inst[p].inserted
        => /\ inst[p].id # NoId
           /\ ~(pc[p] = "runQuery" /\ query[p].kind = "insert")

(* ------------------------------------------------------------------ *)
(* C18                                                                *)
(* ------------------------------------------------------------------ *)

\* C18: with no concurrent writer, what message.all resolves to holds every
\* stored message of the pair exactly once, in ascending date order, whatever
\* the number of stored messages.
C18_AllExact ==
    allOut.state = "resolved" =>
        LET m == allOut.messages
        IN /\ Len(m) = Len(folderRows)
           /\ {m[i] : i \in DOMAIN m} = DOMAIN folderRows
           /\ \A i, j \in DOMAIN m :
                 i < j => folderRows[m[i]] <= folderRows[m[j]]

(* ------------------------------------------------------------------ *)
(* C21                                                                *)
(* ------------------------------------------------------------------ *)

\* q is between its locking read and its commit on one mailbox while the
\* counter operation p on another mailbox is under way, and no third
\* invocation holds the lock of p's row
C21_Overlap(p, q) ==
    /\ p # q
    /\ IsCounter(p) /\ IsCounter(q)
    /\ op[p].target # op[q].target
    /\ InCounterTx(q)
    /\ pc[p] \notin {"idle", "resolved", "rejected"}
    /\ \A r \in Procs \ {p, q} : held[r] = NoLock

\* C21 as stated: under either provider, a counter operation on one mailbox
\* can always take its next step while an operation on another mailbox is
\* between its locking read and its commit.
C21_FullyConcurrent ==
    \A p, q \in Procs : C21_Overlap(p, q) => ENABLED StepOK(p)

\* C21 amended: under postgres a counter operation on one mailbox can always
\* take its next step while an operation on another mailbox is between its
\* locking read and its commit; under sqlite the other one holds the database
\* lock, and the BEGIN of this one cannot succeed until it is released.
C21_ConcurrentUnderPostgres ==
    \A p, q \in Procs :
        C21_Overlap(p, q) =>
            IF provider = "postgres"
            THEN ENABLED StepOK(p)
            ELSE /\ held[q] = DbLock /\ held[p] = NoLock
                 /\ pc[p] = "begin" => ~ENABLED beginTransaction(p)

\* under postgres two counter operations on different mailboxes are both
\* between their locking read and their commit, one of them about to commit
C21_Witness ==
    \E p, q \in Procs :
        /\ provider = "postgres"
        /\ C21_Overlap(p, q)
        /\ InCounterTx(p)
        /\ pc[p] = "commit"
        /\ held[p] = op[p].target /\ held[q] = op[q].target

(* ------------------------------------------------------------------ *)
(* C22                                                                *)
(* ------------------------------------------------------------------ *)

\* the steps of one transactional operation
Steps == {"BEGIN", "SELECT", "mwi", "mwi.settled", "UPDATE", "DELETE", "COMMIT"}

\* the position of the failed step of invocation p in its trace
FailedAt(p) ==
    {i \in DOMAIN trace[p] : trace[p][i].stmt \in Steps /\ ~trace[p][i].ok}

\* C22: within one counter or message operation each step (begin, locking
\* read, callback, write, commit) and the rollback is attempted at most once,
\* no step is attempted after a failed one, and an operation one of whose
\* steps failed settles as a rejection.
C22_NoRetry ==
    \A p \in Procs :
        /\ \A s \in Steps \cup {"ROLLBACK"} : Count(p, s) <= 1
        /\ \A i \in FailedAt(p) :
               \A j \in DOMAIN trace[p] : j > i => trace[p][j].stmt \notin Steps
        /\ (FailedAt(p) # {} /\ Settled(p)) =>
               pc[p] = "rejected" /\ result[p].state = "rejected"

\* one counter or message operation was rejected at its BEGIN, which it
\* attempted once, and another after its write failed
C22_Witness ==
    \E p, q \in Procs :
        /\ pc[p] = "rejected" /\ trace[p] = <<Stmt("BEGIN", FALSE)>>
        /\ pc[q] = "rejected"
        /\ \E i \in FailedAt(q) : trace[q][i].stmt \in {"UPDATE", "DELETE"}

(* ------------------------------------------------------------------ *)
(* C23                                                                *)
(* ------------------------------------------------------------------ *)

\* the sets of repositories the cache holds
Cached == {cache[k] : k \in ConnectionStrings} \ {NoRepos}

\* C23: a call of the factory returns a set of repositories created for the
\* connection string it was called with: the set cached under that string
\* when there is one (so repeated calls return the very same set), a newly
\* created one when the string is new; the cache never maps a string to a
\* set created for another string, and holds one set per string.
C23_OneSetPerString ==
    /\ loaded # NotLoaded =>
          /\ loaded.repos.id \in 1..created
          /\ loaded.repos.connectionString = loaded.connectionString
          /\ loaded.repos = cache[loaded.connectionString]
    /\ \A k \in ConnectionStrings :
          cache[k] # NoRepos => cache[k].connectionString = k
    /\ \A a, b \in Cached : a.id = b.id => a = b
    /\ Cardinality(Cached) = created

\* C23, as a step: a call with a string the cache holds returns that set and
\* creates nothing; a call with a new string creates one set
C23_SameSetAgain ==
    [][\A k \in ConnectionStrings :
          loaded'.connectionString = k /\ loaded' # loaded =>
             IF cache[k] # NoRepos
             THEN loaded'.repos = cache[k] /\ created' = created
             ELSE created' = created + 1 /\ cache'[k] = loaded'.repos]_vars

\* C23: both halves
C23_FactoryCache == []C23_OneSetPerString /\ C23_SameSetAgain

(* ------------------------------------------------------------------ *)
(* C24                                                                *)
(* ------------------------------------------------------------------ *)

\* caller p's createIndexes settled
CreateIndexesSettled(p) == At(p, "runQuery", "settled") /\ rq[p].stmt = "createIndex"

\* C24, the rejection: a createIndexes call that settled while the index
\* exists without having created it was rejected, with an error that wraps
\* the engine's "index already exists"; a call that resolved created it.
C24_RejectsAlreadyExists ==
    \A p \in Procs :
        CreateIndexesSettled(p) =>
            /\ indexed
            /\ rq[p].state = "rejected" => rq[p].err = NewError(AlreadyExists)
            /\ rq[p].state \in {"resolved", "rejected"}

\* C24, the frame: a createIndexes call that reaches its CREATE INDEX when
\* the index exists goes on to the rollback and never resolves, and the step
\* that rejects it leaves the schema and the stored rows as they were.
C24_LeavesSchema ==
    [][\A p \in Procs :
          /\ (At(p, "runQuery", "exec") /\ rq[p].stmt = "createIndex" /\ indexed
                /\ rq'[p] # rq[p])
               => rq'[p].pc = "rollback" /\ rq'[p].err = AlreadyExists
          /\ (rq'[p].state = "rejected" /\ rq[p].state # "rejected")
               => /\ indexed' = indexed
                  /\ mailboxes' = mailboxes /\ messages' = messages
                  /\ msgRows' = msgRows /\ folderRows' = folderRows]_vars

\* C24: createIndexes when its index already exists rejects with an error
\* whose text says the index already exists, and leaves the schema and the
\* stored rows unchanged.
C24_CreateIndexesTwice == []C24_RejectsAlreadyExists /\ C24_LeavesSchema

\* a second createIndexes was rejected with the wrapped "index already
\* exists", under postgres, after the first one resolved
C24_Witness ==
    \E p, q \in Procs :
        /\ provider = "postgres" /\ indexed
        /\ CreateIndexesSettled(q) /\ rq[q].state = "resolved"
        /\ CreateIndexesSettled(p) /\ rq[p].state = "rejected"
        /\ rq[p].err = NewError(AlreadyExists) /\ rq[p].conn = "closed"

(* ------------------------------------------------------------------ *)
(* C28                                                                *)
(* ------------------------------------------------------------------ *)

\* caller p's last call of the provider is over: runQuery settled, or the
\* commit or the rollback of its transaction settled
CallOver(p) ==
    \/ At(p, "runQuery", "settled") /\ rq[p].conn # "none"
    \/ rq[p].api = "transaction" /\ rq[p].pc \in {"committed", "commitFailed", "rolledBack"}

\* C28: after every single-statement runQuery, resolved or rejected, and
\* after every commit and every rollback of an explicit transaction,
\* succeeded or failed, the connection the call used has been closed
\* (sqlite) or released (postgres).
C28_ConnectionClosed ==
    \A p \in Procs : CallOver(p) => rq[p].conn = "closed" /\ rq[p].closes >= 1

\* a runQuery was rejected after its statement failed, and the rollback that
\* followed a failed commit of a transaction failed too; both connections
\* are closed, the transaction's by two calls
C28_Witness ==
    \E p, q \in Procs :
        /\ At(p, "runQuery", "settled") /\ rq[p].state = "rejected"
        /\ rq[p].err \in {NewError(Failure("exec")), Failure("rollback")}
        /\ rq[p].conn = "closed"
        /\ At(q, "transaction", "rolledBack") /\ rq[q].state = "rejected"
        /\ rq[q].closes = 2 /\ rq[q].conn = "closed"

(* ------------------------------------------------------------------ *)
(* C25                                                                *)
(* ------------------------------------------------------------------ *)

\* the instant in milliseconds the stored date of a row stands for
DateOf(row) == IF provider = "sqlite" THEN row.date * 1000 ELSE row.date

\* the ids of the instances a latest call resolved to
LatestIds(out) == {out.messages[i].id : i \in DOMAIN out.messages}

\* what latest resolved to is exactly the stored messages of the mailbox and
\* folder dated d or later, each once, by ascending date
LatestExact(out, rows) ==
    /\ LatestIds(out) = {id \in DOMAIN rows :
                            /\ rows[id].mailbox = out.mailbox
                            /\ rows[id].folder = out.folder
                            /\ DateOf(rows[id]) >= out.date}
    /\ Len(out.messages) = Cardinality(LatestIds(out))
    /\ \A i, j \in DOMAIN out.messages :
          i < j => /\ DateOf(rows[out.messages[i].id]) <= DateOf(rows[out.messages[j].id])
                   /\ out.messages[i].date <= out.messages[j].date
    /\ \A i \in DOMAIN out.messages :
          /\ out.messages[i].mailbox = out.mailbox
          /\ out.messages[i].folder = out.folder
    /\ \A id \in DOMAIN rows :
          (/\ rows[id].mailbox = out.mailbox /\ rows[id].folder = out.folder
           /\ DateOf(rows[id]) \div 1000 = out.date \div 1000)
             => id \in LatestIds(out)

C26_OnlyFolder ==
    [][msgRows' # msgRows =>
          /\ DOMAIN msgRows' = DOMAIN msgRows
          /\ msg.id \in DOMAIN msgRows
          /\ msgRows' = [msgRows EXCEPT ![msg.id].folder = msgRows'[msg.id].folder]]_vars

(* ------------------------------------------------------------------ *)
(* C27                                                                *)
(* ------------------------------------------------------------------ *)

\* p and q are counter operations on the same mailbox
SameMailbox(p, q) ==
    p # q /\ IsCounter(p) /\ IsCounter(q) /\ op[p].target = op[q].target

\* the notification callback of q was called and has not settled
CallbackPending(q) == IsCounter(q) /\ pc[q] = "mwi"

\* C27, the block: while the notification callback of a counter operation
\* has not completed, no other counter operation on the same mailbox is
\* between its read of the row and the end of its transaction, and none can
\* perform its read.
C27_BlockedBeforeRead ==
    \A p, q \in Procs :
        (SameMailbox(p, q) /\ CallbackPending(q)) =>
            /\ ~InCounterTx(p)
            /\ ~ENABLED updateMwiSelect(p)

\* C27, the release: a counter operation reads the row only when every
\* other counter operation on the same mailbox that read it has ended its
\* transaction, by COMMIT or by ROLLBACK.
C27_ReadsAfterEnd ==
    [][\A p, q \in Procs :
          (SameMailbox(p, q) /\ rowRead'[p].present /\ ~rowRead[p].present
             /\ rowRead[q].present)
            => Issued(q, "COMMIT") \/ Issued(q, "ROLLBACK")]_vars

\* C27: while a counter operation's notification callback has not
\* completed, every other counter operation on the same mailbox stays
\* blocked before its read of the row; it proceeds only after the holder's
\* transaction has committed or rolled back.
C27_BlockedDuringCallback == []C27_BlockedBeforeRead /\ C27_ReadsAfterEnd

\* under postgres a counter operation waits at its locking read, its BEGIN
\* done, while the callback of another one on the same mailbox is pending
C27_Witness ==
    \E p, q \in Procs :
        /\ provider = "postgres"
        /\ SameMailbox(p, q) /\ CallbackPending(q)
        /\ pc[p] = "select" /\ Issued(p, "BEGIN")
        /\ op[p].target \in DOMAIN mailboxes

(* ------------------------------------------------------------------ *)
(* C29                                                                *)
(* ------------------------------------------------------------------ *)

\* a step of p failed and the ROLLBACK that followed failed too
RollbackFailedToo(p) ==
    /\ pc[p] = "rejected"
    /\ err[p] # NoErr
    /\ \E i \in DOMAIN trace[p] : trace[p][i] = Stmt("ROLLBACK", FALSE)

\* C29: when a step of updateMwi, markAsRead or remove fails and the
\* rollback that follows fails too, the operation rejects with the error of
\* the original step (wrapped in a new Error), never with the rollback's.
C29_OriginalError ==
    \A p \in Procs :
        RollbackFailedToo(p) =>
            /\ result[p].state = "rejected"
            /\ result[p].err = NewError(err[p])
            /\ result[p].err.origin # "rollback"

(* ------------------------------------------------------------------ *)
(* C30                                                                *)
(* ------------------------------------------------------------------ *)

\* the step is the commit of a counter operation on mailbox m
CommitsOn(m) ==
    \E p \in Procs :
        /\ IsCounter(p) /\ op[p].target = m
        /\ pc[p] = "commit" /\ pc'[p] = "resolved"

\* C30, step by step: the rows stay the same rows; a row changes only in
\* the step that commits a counter operation on its mailbox, and then in
\* nothing but read and unread, which become the counts of the operation.
C30_WritesOwnRow ==
    [][/\ DOMAIN mailboxes' = DOMAIN mailboxes
       /\ \A m \in DOMAIN mailboxes :
             /\ \A c \in Columns \ NumColumns : mailboxes'[m][c] = mailboxes[m][c]
             /\ mailboxes'[m] # mailboxes[m] => CommitsOn(m)
       /\ (\E m \in Mailboxes : CommitsOn(m)) => messages' = messages]_vars

\* C30, over the run: every attribute of every mailbox other than its two
\* counts is what it was at the start, and the counts of a mailbox no
\* counter operation committed on are what they were at the start.
C30_OthersKept ==
    \A m \in DOMAIN mailboxes :
        /\ \A c \in Columns \ NumColumns : mailboxes[m][c] = mailboxes0[m][c]
        /\ (\A p \in Procs : ~(ResolvedOp(p, op[p].name) /\ IsCounter(p) /\ op[p].target = m))
              => mailboxes[m] = mailboxes0[m]

\* C30: a counter operation on mailbox A writes only the row selected by
\* A's mailboxNumber and contextId: the read and unread counts of every
\* other mailbox and every other attribute of A are left unchanged.
C30_CounterFrame == []C30_OthersKept /\ C30_WritesOwnRow

\* a counter operation resolved on one mailbox and changed its counts, while
\* another mailbox with counts of its own is stored untouched
C30_Witness ==
    \E p \in Procs : \E m \in DOMAIN mailboxes :
        /\ IsCounter(p) /\ pc[p] = "resolved"
        /\ op[p].target \in DOMAIN mailboxes /\ m # op[p].target
        /\ mailboxes[op[p].target] # mailboxes0[op[p].target]
        /\ mailboxes[m] = mailboxes0[m]
        /\ mailboxes[m].read # NULL
        /\ mailboxes[m].read # mailboxes[op[p].target].read

(* ------------------------------------------------------------------ *)
(* C31                                                                *)
(* ------------------------------------------------------------------ *)

\* p is a newMessage and q a readMessage on the stored mailbox m, both
\* committed and resolved
C31_BothCommitted(p, q, m) ==
    /\ p # q
    /\ m \in DOMAIN mailboxes0
    /\ op[p].target = m /\ op[q].target = m
    /\ ResolvedOp(p, "newMessage")
    /\ ResolvedOp(q, "readMessage")

\* the invocation p committed before q's locking read
C31_CommittedFirst(p, q) == rowRead[q] = persisted[p]

\* the counts the two rules give to the row, applied in either order
C31_NewThenRead(row) ==
    modifierReadMessage([row EXCEPT !.read = modifierNewMessage(row).read,
                                    !.unread = modifierNewMessage(row).unread])
C31_ReadThenNew(row) ==
    modifierNewMessage([row EXCEPT !.read = modifierReadMessage(row).read,
                                   !.unread = modifierReadMessage(row).unread])

\* C31 as stated: for every stored (read, unread), unread = 0 or null
\* included, a newMessage and a readMessage that both commit leave the same
\* persisted counts whichever of the two commits first: the counts found
\* after both equal what either order of the two rules gives.
C31_OrderIndependent ==
    \A p, q \in Procs : \A m \in Mailboxes :
        C31_BothCommitted(p, q, m) =>
            /\ CountsOf(mailboxes[m]) = C31_NewThenRead(mailboxes0[m])
            /\ CountsOf(mailboxes[m]) = C31_ReadThenNew(mailboxes0[m])

\* C31 amended: from a stored unread count of at least 1 the two orders end
\* at the same counts (read + 1, unread), null read counting as 0; from
\* unread = 0 or null they end at (read + 1, 0) when the newMessage commits
\* first and at (read + 1, 1) when the readMessage commits first.
C31_OrderIndependentFromOne ==
    \A p, q \in Procs : \A m \in Mailboxes :
        C31_BothCommitted(p, q, m) =>
            LET r == Num(mailboxes0[m].read)
                u == Num(mailboxes0[m].unread)
            IN IF u >= 1
               THEN CountsOf(mailboxes[m]) = [read |-> r + 1, unread |-> u]
               ELSE /\ C31_CommittedFirst(p, q) =>
                        CountsOf(mailboxes[m]) = [read |-> r + 1, unread |-> 0]
                    /\ C31_CommittedFirst(q, p) =>
                        CountsOf(mailboxes[m]) = [read |-> r + 1, unread |-> 1]
                    /\ C31_CommittedFirst(p, q) \/ C31_CommittedFirst(q, p)

\* the readMessage committed first on a mailbox stored with unread = 1 and a
\* null read count, and the newMessage after it
C31_Witness ==
    \E p, q \in Procs : \E m \in Mailboxes :
        /\ C31_BothCommitted(p, q, m)
        /\ mailboxes0[m].unread = 1
        /\ mailboxes0[m].read = NULL
        /\ C31_CommittedFirst(q, p)
        /\ CountsOf(persisted[q]) = [read |-> 1, unread |-> 0]
        /\ CountsOf(mailboxes[m]) = [read |-> 1, unread |-> 1]

(* ------------------------------------------------------------------ *)
(* C32                                                                *)
(* ------------------------------------------------------------------ *)

\* the number of times invocation p closed (sqlite) or released (postgres)
\* the connection its beginTransaction opened
Releases(p) == Count(p, "close")

\* C32: once a counter or message transactional operation has settled, the
\* connection obtained by its beginTransaction has been released exactly
\* once: not zero times (a failed BEGIN included) and not twice (a failed
\* commit followed by the rollback of the catch handler included).
C32_ReleasedOnce ==
    \A p \in Procs :
        (Settled(p) /\ (IsCounter(p) \/ IsMessage(p))) => Releases(p) = 1

(* ------------------------------------------------------------------ *)
(* C33                                                                *)
(* ------------------------------------------------------------------ *)

\* the BEGIN of invocation p succeeded
Opened33(p) ==
    \E i \in DOMAIN trace[p] : trace[p][i] = Stmt("BEGIN", TRUE)

\* the last statement p sent on its connection before releasing it
LastStatement(p) ==
    LET S == {i \in DOMAIN trace[p] : trace[p][i].stmt # "close"}
    IN trace[p][CHOOSE i \in S : \A j \in S : j <= i].stmt

Invoked34(p) ==
    /\ IsCounter(p)
    /\ op[p].target \in DOMAIN mailboxes
    /\ pc[p] = "begin"

\* the promise of p resolved with the counts p computed and committed
ResolvedWithCounts(p) ==
    /\ pc[p] = "resolved"
    /\ result[p].state = "resolved"
    /\ result[p].counts = counts[p]
    /\ CountsOf(persisted[p]) = counts[p]

\* C34: when every notification callback completes and no storage step
\* fails, under fair scheduling every invoked counter operation on a stored
\* mailbox eventually resolves with its counts, also when the other
\* invocations contend for the same mailbox or for the database lock: none
\* waits for the lock for ever.
C34_EventuallyResolves ==
    \A p \in Procs : Invoked34(p) ~> ResolvedWithCounts(p)

\* two counter operations on the same mailbox under sqlite: one waits at
\* BEGIN IMMEDIATE while the other is inside its transaction
C34_Waiting ==
    \E p, q \in Procs :
        /\ p # q
        /\ provider = "sqlite"
        /\ Invoked34(p)
        /\ IsCounter(q) /\ op[q].target = op[p].target
        /\ held[q] = DbLock
        /\ ~ENABLED beginTransaction(p)

\* both of two counter operations on the same mailbox resolved with their
\* counts, the second having read what the first committed
C34_Witness ==
    \E p, q \in Procs :
        /\ p # q
        /\ IsCounter(p) /\ IsCounter(q) /\ op[q].target = op[p].target
        /\ ResolvedWithCounts(p)
        /\ pc[q] = "resolved"
        /\ rowRead[p] = persisted[q]

(* ------------------------------------------------------------------ *)
(* C35                                                                *)
(* ------------------------------------------------------------------ *)

\* the locking read of the counter operation p succeeded and returned no row
MissingAtRead(p) ==
    /\ IsCounter(p)
    /\ \E i \in DOMAIN trace[p] : trace[p][i] = Stmt("SELECT", TRUE)
    /\ ~rowRead[p].present

\* the counter operation p never invoked the notification callback and
\* issued no UPDATE
NoCallbackNoWrite(p) ==
    /\ ~Issued(p, "mwi")
    /\ mwiArgs[p] = NoCounts
    /\ ~Issued(p, "UPDATE")
    /\ staged[p] = NoWrite

\* a counter operation whose locking read found no row is in its catch
\* handler or has rejected, with the modifier's error, after one ROLLBACK
C35_Rejects ==
    \A p \in Procs :
        MissingAtRead(p) =>
            /\ NoCallbackNoWrite(p)
            /\ pc[p] \in {"rollback", "rejected"}
            /\ err[p] = Failure("modifier")
            /\ ~Issued(p, "COMMIT")
            /\ pc[p] = "rejected" =>
                   /\ result[p] = Rejected(NewError(Failure("modifier")))
                   /\ Count(p, "ROLLBACK") = 1
                   /\ LastStatement(p) = "ROLLBACK"
                   /\ held[p] = NoLock

\* a counter operation that settled without having read a row (its mailbox
\* was missing, or its BEGIN or locking read failed) rejected without
\* callback and without write
C35_NothingRead ==
    \A p \in Procs :
        (IsCounter(p) /\ Settled(p) /\ ~rowRead[p].present) =>
            /\ pc[p] = "rejected"
            /\ NoCallbackNoWrite(p)

\* no step of such an operation changes a stored row
C35_WritesNothing ==
    [][\A p \in Procs :
          (MissingAtRead(p)' /\ trace'[p] # trace[p]) => mailboxes' = mailboxes]_vars

\* C35: a counter operation on a mailbox whose row does not exist, never
\* saved or removed before its locking read, rejects, never invokes the
\* notification callback, writes nothing and ends its transaction by a
\* rollback.
C35_MissingRow == [](C35_Rejects /\ C35_NothingRead) /\ C35_WritesNothing

\* the first caller removed mailbox m1 after the second invoked a counter
\* operation on it; the operation then read no row and rejected after its
\* ROLLBACK
C35_Witness ==
    \E p, q \in Procs :
        /\ op[q].name = "mailbox.remove" /\ pc[q] = "resolved"
        /\ op[p].target = "m1" /\ "m1" \in DOMAIN mailboxes0
        /\ "m1" \notin DOMAIN mailboxes
        /\ MissingAtRead(p)
        /\ pc[p] = "rejected"
        /\ trace[p] = <<Stmt("BEGIN", TRUE), Stmt("SELECT", TRUE),
                        Stmt("ROLLBACK", TRUE), Stmt("close", TRUE)>>

(* ------------------------------------------------------------------ *)
(* C36                                                                *)
(* ------------------------------------------------------------------ *)

\* p is a markAsRead and q a remove on the message id, which was stored
\* unread, and no other invocation works on it
C36_Scenario(p, q, id) ==
    /\ p # q
    /\ op[p].name = "markAsRead" /\ op[p].target = id
    /\ op[q].name = "remove" /\ op[q].target = id
    /\ \A r \in Procs \ {p, q} : op[r].target # id

\* the markAsRead p committed before the locking read of the remove q: q
\* read the row as p's commit left it
C36_MarkedBeforeRead(p, q) ==
    /\ rowRead[q].present
    /\ rowRead[q] = persisted[p]

\* C36: with no failing step, a markAsRead and a remove running concurrently
\* on the same unread message never get stuck, both resolve, remove returns
\* the row its locking read found, markAsRead returns true exactly when it
\* committed before that read and false otherwise, and the message row is
\* absent afterwards.
C36_ConcurrentMarkAndRemove ==
    \A p, q \in Procs : \A id \in MessageIds :
        C36_Scenario(p, q, id) =>
            IF Settled(p) /\ Settled(q)
            THEN /\ pc[p] = "resolved" /\ pc[q] = "resolved"
                 /\ result[q].snapshot.present
                 /\ result[q].snapshot = rowRead[q]
                 /\ result[p].updated <=> C36_MarkedBeforeRead(p, q)
                 /\ result[p].updated <=>
                        convertFromStorage(result[q].snapshot.flag)
                 /\ ~result[p].updated <=> ~rowRead[p].present
                 /\ id \notin DOMAIN messages
            ELSE \E r \in Procs :
                    /\ pc[r] \notin {"idle", "resolved", "rejected"}
                    /\ ENABLED StepOK(r)

\* both resolved, the remove having committed first: markAsRead found no
\* row and returned false, remove returned the unread row
C36_Witness ==
    \E p, q \in Procs : \E id \in MessageIds :
        /\ C36_Scenario(p, q, id)
        /\ pc[p] = "resolved" /\ pc[q] = "resolved"
        /\ ~result[p].updated /\ ~rowRead[p].present
        /\ result[q].snapshot.present
        /\ ~convertFromStorage(result[q].snapshot.flag)
        /\ id \notin DOMAIN messages

\* both resolved, the markAsRead having committed first and returned true
C36_MarkedFirst ==
    \E p, q \in Procs : \E id \in MessageIds :
        /\ C36_Scenario(p, q, id)
        /\ pc[p] = "resolved" /\ pc[q] = "resolved"
        /\ result[p].updated
        /\ convertFromStorage(result[q].snapshot.flag)

(* ------------------------------------------------------------------ *)
(* C37                                                                *)
(* ------------------------------------------------------------------ *)

SaveSettled(c) == saving[c].pc \in {"resolved", "rejected"}

\* the instance carries the read and unread it carried when call c was made
CountsAsBefore(c) ==
    /\ sharedInstance.read = saving[c].before.read
    /\ sharedInstance.unread = saving[c].before.unread

\* C37: once a mailbox.save call has settled, resolved or rejected, the
\* in-memory read and unread of the instance it was given are what they
\* were before the call (no other save running on the instance meanwhile).
C37_CountsRestored ==
    \A c \in SaveCalls :
        (SaveSettled(c) /\ \A d \in SaveCalls \ {c} : saving[d].pc = "idle")
            => CountsAsBefore(c)

\* the part of C37 that holds: a mailbox.save that resolved with no other
\* save running on the instance leaves read and unread as they were
C37_RestoredWhenResolved ==
    \A c \in SaveCalls :
        (saving[c].pc = "resolved" /\ \A d \in SaveCalls \ {c} : saving[d].pc = "idle")
            => CountsAsBefore(c)

(* ------------------------------------------------------------------ *)
(* C38                                                                *)
(* ------------------------------------------------------------------ *)

\* call c was the first mailbox.save on the persisted instance and call d
\* was made while c was running
C38_Overlapping(c, d) ==
    /\ sharedInstance.id # NoId
    /\ saving[c].phase = "first"
    /\ saving[d].phase = "overlapping"

\* C38: once two overlapping mailbox.save calls on the same persisted
\* instance have both resolved, in whichever order, the instance's read and
\* unread equal the values they had before the first call.
C38_CountsAfterOverlap ==
    \A c, d \in SaveCalls :
        (C38_Overlapping(c, d) /\ saving[c].pc = "resolved" /\ saving[d].pc = "resolved")
            => CountsAsBefore(c)

(* ------------------------------------------------------------------ *)
(* C39                                                                *)
(* ------------------------------------------------------------------ *)

\* after message.save resolved the instance carries the read and the date
\* it carried before the call
C39_InstanceKept ==
    msgSave.pc = "resolved" =>
        /\ tempObject.read = msgSave.before.read
        /\ tempObject.date = msgSave.before.date

\* the saves of an instance the caller did not change in between stored the
\* same read flag and the same date
C39_SameAgain ==
    \A i, j \in DOMAIN msgSave.writes : msgSave.writes[i] = msgSave.writes[j]

\* C39: message.save does not modify the instance it is given: after save
\* resolves read is the same boolean and date the same timestamp as before,
\* so a second save of the same instance persists the same read flag and
\* date as the first.
C39_SaveKeepsInstance == C39_InstanceKept /\ C39_SameAgain

(* ------------------------------------------------------------------ *)
(* C40                                                                *)
(* ------------------------------------------------------------------ *)

\* C40: when other callers save or remove messages of the pair while
\* message.all is between its count query and its batch queries, the result
\* holds no message twice and holds every message that was stored during
\* the whole call.
C40_AllUnderWrites ==
    allOut.state = "resolved" =>
        LET m == allOut.messages
        IN /\ \A i, j \in DOMAIN m : i # j => m[i] # m[j]
           /\ kept \subseteq {m[i] : i \in DOMAIN m}

\* the first half alone: no message twice
C40_NoDuplicate ==
    allOut.state = "resolved" =>
        \A i, j \in DOMAIN allOut.messages :
            i # j => allOut.messages[i] # allOut.messages[j]

\* the second half alone: every message stored during the whole call
C40_NoneMissed ==
    allOut.state = "resolved" =>
        kept \subseteq {allOut.messages[i] : i \in DOMAIN allOut.messages}

\* with no write of another caller during the call the result is exact
C40_ExactWhenAlone ==
    (allOut.state = "resolved" /\ written = 0) =>
        allOut.messages = stored

====
